---- MODULE Spec2Model ----
(***************************************************************************)
(* State-machine model of x11_gstreamer_viewer's GStreamerManager          *)
(* (src/x11_gstreamer_viewer/core/gstreamer_manager.py): pipeline          *)
(* lifecycle, compositor tile layout / view cycling, FPS-overlay           *)
(* visibility and its idle-hide timer, the FPS / latency sampler of the    *)
(* pad probes, and the threads these run on; of X11WindowManager           *)
(* (core/x11_manager.py): the window, the event loop and its dispatch; and *)
(* of MainWindow (ui/main_window.py): its event handlers and run().        *)
(*                                                                         *)
(* Encoding conventions                                                    *)
(*   - Python None is the string "None"; an attribute that was never       *)
(*     assigned (window_id before the first sink creation) is "unset".     *)
(*   - alpha 0.0 / 1.0 is the integer 0 / 1.                               *)
(*   - a compositor sink pad (tile) is a record                            *)
(*       [slot, xpos, ypos, width, height, alpha]                          *)
(*     where slot n is the request pad "sink_n" of the compositor.         *)
(*   - an overlay text is a tuple: <<>> is the empty string, <<f, l>> is   *)
(*     "{fps:.1f} FPS | {latency:.1f}ms" with f, l the printed tenths.     *)
(*   - `last` records what the most recent call returned and logged.       *)
(*   - time is counted in ticks (TicksPerSec to a second); FPS values are  *)
(*     hundredths of a frame per second, latencies hundredths of a         *)
(*     millisecond, buffer timestamps nanoseconds.                         *)
(*   - a Timer is a record [id, deadline, at]: at is "waiting" until its   *)
(*     interval is over, then the stretch of hide_fps_overlay its thread   *)
(*     has reached; cancelled and finished Timers are dropped.             *)
(***************************************************************************)
EXTENDS Integers, Sequences, FiniteSets, TLC

VARIABLES
    pipeline,              \* self.pipeline: "None" or "Pipeline"
    gst_state,             \* Gst state of the pipeline object
    elements,              \* names of the elements added to the pipeline
    sink_handle,           \* window handle set on element "video_sink"
    probes,                \* camera indices with a buffer probe attached
    running,               \* self.running
    window_id,             \* self.window_id
    current_view,          \* self.current_view (-1 tiled, 0..3 camera)
    compositor_sink_pads,  \* self.compositor_sink_pads
    fps_overlays,          \* keys of self.fps_overlays
    overlay_text,          \* "text" property of each registered overlay
    fps_values,            \* self.fps_values (hundredths of a frame/s)
    latency_values,        \* self.latency_values (hundredths of a ms)
    fps_overlay_visible,   \* self.fps_overlay_visible
    fps_hide_timer,        \* self.fps_hide_timer: "None" or the id of a Timer
    timers,                \* live threading.Timer threads [id, deadline, at]
    fps_frame_counts,      \* self.fps_frame_counts
    fps_last_update,       \* self.fps_last_update (ticks of time.time())
    latency_buffer_times,  \* self.latency_buffer_times (hundredths of a ms)
    fps_lock,              \* holder of self.fps_lock: "None" or a thread
    now,                   \* time.time(), in ticks
    thread_pc,             \* where the event and streaming threads stand
    built_as,              \* observation: branch outcomes of the last build
    activity_at,           \* observation: when on_mouse_activity last returned
    last,                  \* observation of the most recent call
    view_hist,             \* observation: modes applied since the build
    x11_manager,           \* X11WindowManager: window, running, dpy, event_handlers
    xserver,               \* the X server: this client's windows, pending events
    main_window,           \* MainWindow: running, current_view_mode, place in run()
    dispatched,            \* observation: what the last pass of the loop read
    config                 \* Config: the settings validate() reads

vars == <<pipeline, gst_state, elements, sink_handle, probes, running,
          window_id, current_view, compositor_sink_pads, fps_overlays,
          overlay_text, fps_values, latency_values, fps_overlay_visible,
          fps_hide_timer, timers, fps_frame_counts, fps_last_update,
          latency_buffer_times, fps_lock, now, thread_pc, built_as,
          activity_at, last, view_hist, x11_manager, xserver, main_window,
          dispatched, config>>

\* Everything the manager owns (its attributes and its Timer threads).
mgr_vars == <<pipeline, gst_state, elements, sink_handle, probes, running,
              window_id, current_view, compositor_sink_pads, fps_overlays,
              overlay_text, fps_values, latency_values, fps_overlay_visible,
              fps_hide_timer, timers, fps_frame_counts, fps_last_update,
              latency_buffer_times, fps_lock>>

\* The manager's state apart from the idle-hide timer reference.
graph_vars == <<pipeline, gst_state, elements, sink_handle, probes, running,
                window_id, current_view, compositor_sink_pads, fps_overlays,
                overlay_text, fps_values, latency_values, fps_overlay_visible,
                fps_frame_counts, fps_last_update, latency_buffer_times,
                fps_lock>>

\* graph_vars without fps_overlay_visible.
graph_vars_but_visible ==
    <<pipeline, gst_state, elements, sink_handle, probes, running, window_id,
      current_view, compositor_sink_pads, fps_overlays, overlay_text,
      fps_values, latency_values, fps_frame_counts, fps_last_update,
      latency_buffer_times, fps_lock>>

\* The sampler's counters and its lock.
sampler_vars == <<fps_frame_counts, fps_last_update, latency_buffer_times,
                  fps_lock>>

\* The window layer.
win_vars == <<x11_manager, xserver, main_window, dispatched>>

\* What no operation of GStreamerManager touches.
aside == <<view_hist, win_vars, config>>

\* What the lifecycle and view operations never touch.
quiet_vars == <<timers, sampler_vars, now, thread_pc, built_as, activity_at>>

(***************************************************************************)
(* Program constants and the bounds of the model                           *)
(***************************************************************************)
video_width == 1920
video_height == 1080

\* self.video_devices; enumerate() numbers them 0..3.
video_devices == <<"/dev/video0", "/dev/video1", "/dev/video2", "/dev/video3">>
DeviceIndex == 0 .. (Len(video_devices) - 1)

\* view_hist keeps at most this many modes (a sliding window).
MaxHist == 6

\* Length of the switch sequences SpecLayout explores.
MaxSwitches == 4

\* Window handles a caller may pass to create_pipeline.
WindowIds == {"None", "w1"}

\* What Gst.Pipeline.set_state can return.
StateChangeReturns == {"SUCCESS", "ASYNC", "NO_PREROLL", "FAILURE"}

\* How the construction of one source branch can go:
\*   ok          all elements and the request pad are obtained
\*   no_overlay  textoverlay is None, the fallback link is used
\*   skipped     one of src/convert/scale/caps is None (continue)
\*   no_pad      get_request_pad (or the overlay's src pad) is None
BranchOutcomes == {"ok", "no_overlay", "skipped", "no_pad"}

AllOutcomes == [DeviceIndex -> BranchOutcomes]

\* ElementFactory.make fails per element type, so a missing plugin hits
\* every branch alike: the builds specification Spec draws.
UniformOutcomes == {[i \in DeviceIndex |-> k] : k \in BranchOutcomes}

ZeroMetrics == [i \in DeviceIndex |-> 0]

(***************************************************************************)
(* Pure helpers                                                            *)
(***************************************************************************)
\* "{x:.1f}" of a value kept in hundredths: the printed tenths.
Round1(x) == (x + 5) \div 10

\* f"{fps_value:.1f} FPS | {latency_value:.1f}ms"
FormatText(fps, lat) == <<Round1(fps), Round1(lat)>>

EmptyText == <<>>

(***************************************************************************)
(* Time, the idle-hide Timer and the metrics sampler                       *)
(***************************************************************************)
\* Resolution of the model's clock: ticks of time.time() per second.
TicksPerSec == 2

\* self.fps_idle_timeout, in seconds.
fps_idle_timeout == 3

\* The clock is observed for this many seconds.
MaxSeconds == 6
MaxTime == MaxSeconds * TicksPerSec

\* self.fps_idle_timeout in ticks.
IdleTicks == fps_idle_timeout * TicksPerSec


\* Length the latency sample list is trimmed to.
LatencyCap == 10

\* Gst.MSECOND: nanoseconds per millisecond.
Gst_MSECOND == 1000000

\* Gst.CLOCK_TIME_NONE: the PTS of a buffer without a timestamp.
CLOCK_TIME_NONE == -1

\* Identities of the threading.Timer objects that can be alive at once.
TimerIds == {"t1", "t2", "t3"}

\* _cancel_hide_timer: Timer.cancel() stops the referenced timer if it is
\* still waiting; a timer whose function has begun runs on.
cancel_hide_timer(ts, ref) ==
    {tm \in ts : ~(tm.id = ref /\ tm.at = "waiting")}

\* _schedule_hide_overlay: cancel, then start a new Timer(fps_idle_timeout).
schedule_hide_overlay(ts, ref, t) ==
    LET kept == cancel_hide_timer(ts, ref)
        id == CHOOSE x \in TimerIds : \A tm \in kept : tm.id # x
    IN  [timers |-> kept \cup {[id |-> id, at |-> "waiting",
                                deadline |-> t + IdleTicks]},
         ref |-> id]

\* A Timer object is available (at most three are ever alive).
CanSchedule(ts, ref) ==
    \E x \in TimerIds : \A tm \in cancel_hide_timer(ts, ref) : tm.id # x

RECURSIVE Sum(_)
Sum(seq) == IF seq = <<>> THEN 0 ELSE Head(seq) + Sum(Tail(seq))

\* Mutant of PushSample: the newest sample is dropped when the list is full.
PushSample_drops_newest(buf, x) ==
    IF Len(buf) >= LatencyCap THEN buf ELSE Append(buf, x)

\* list.append(x) followed by pop(0) when more than LatencyCap are held.
PushSample(buf, x) ==
    LET b == Append(buf, x)
    IN  IF Len(b) > LatencyCap THEN Tail(b) ELSE b

\* sum(buf) / len(buf) in hundredths of a millisecond.
Mean(buf) == Sum(buf) \div Len(buf)

\* latency_ns / Gst.MSECOND in hundredths of a millisecond.
LatencyMs(latency_ns) == (latency_ns * 100) \div Gst_MSECOND

\* Mutant of EstimatedInterval: a camera without a rate yet is taken to
\* run at the default of 30 frames per second.
EstimatedInterval_assumes_30(fps) ==
    (1000 * 100 * 100) \div (IF fps > 100 THEN fps ELSE IF fps = 0 THEN 3000 ELSE 100)

\* 1000.0 / max(fps, 1.0) in hundredths of a millisecond (fps in hundredths).
EstimatedInterval(fps) ==
    (1000 * 100 * 100) \div (IF fps > 100 THEN fps ELSE 100)

\* Mutant of LatencySample: a latency of zero is pushed too.
LatencySample_pushes_zero(frame, fps, pipe) ==
    IF ~frame.buffer THEN <<>>
    ELSE IF frame.pts # CLOCK_TIME_NONE /\ pipe # "None"
    THEN IF frame.clock /\ frame.running_time - frame.pts >= 0
         THEN <<LatencyMs(frame.running_time - frame.pts)>>
         ELSE <<>>
    ELSE <<EstimatedInterval(fps)>>

\* Mutant of LatencySample: a buffer with a PTS on a pipeline without a
\* clock gets the fallback estimate.
LatencySample_falls_back(frame, fps, pipe) ==
    IF ~frame.buffer THEN <<>>
    ELSE IF frame.pts # CLOCK_TIME_NONE /\ pipe # "None" /\ frame.clock
    THEN IF frame.running_time - frame.pts > 0
         THEN <<LatencyMs(frame.running_time - frame.pts)>>
         ELSE <<>>
    ELSE <<EstimatedInterval(fps)>>

\* The sample a buffer contributes (lines 356-391): <<>> when none is pushed.
\* A frame is [buffer, pts, clock, running_time]: whether info.get_buffer()
\* gives a buffer, its PTS, whether the pipeline has a clock, and
\* clock.get_time() - base_time, the last two in nanoseconds.
LatencySample(frame, fps, pipe) ==
    IF ~frame.buffer THEN <<>>
    ELSE IF frame.pts # CLOCK_TIME_NONE /\ pipe # "None"
    THEN IF frame.clock /\ frame.running_time - frame.pts > 0
         THEN <<LatencyMs(frame.running_time - frame.pts)>>
         ELSE <<>>
    ELSE <<EstimatedInterval(fps)>>

\* Mutant of SampleMetrics: the FPS is recomputed on every frame.
SampleMetrics_every_frame(i, frame, t) ==
    LET count == fps_frame_counts[i] + 1
        sample == LatencySample(frame, fps_values[i], pipeline)
        buf == IF sample = <<>> THEN latency_buffer_times[i]
               ELSE PushSample(latency_buffer_times[i], sample[1])
        elapsed == t - fps_last_update[i]
        recompute == elapsed > 0
    IN  [count |-> IF recompute THEN 0 ELSE count,
         buf |-> buf,
         latency |-> IF sample = <<>> THEN latency_values[i] ELSE Mean(buf),
         fps |-> IF recompute THEN (count * TicksPerSec * 100) \div elapsed
                 ELSE fps_values[i],
         last_update |-> IF recompute THEN t ELSE fps_last_update[i],
         recompute |-> recompute]

\* The critical section of _fps_probe_callback (lines 353-399) for camera
\* i, a frame and the time t read at line 349: the new counters of i.
SampleMetrics(i, frame, t) ==
    LET count == fps_frame_counts[i] + 1
        sample == LatencySample(frame, fps_values[i], pipeline)
        buf == IF sample = <<>> THEN latency_buffer_times[i]
               ELSE PushSample(latency_buffer_times[i], sample[1])
        elapsed == t - fps_last_update[i]
        recompute == elapsed >= TicksPerSec /\ elapsed > 0
    IN  [count |-> IF recompute THEN 0 ELSE count,
         buf |-> buf,
         latency |-> IF sample = <<>> THEN latency_values[i] ELSE Mean(buf),
         fps |-> IF recompute THEN (count * TicksPerSec * 100) \div elapsed
                 ELSE fps_values[i],
         last_update |-> IF recompute THEN t ELSE fps_last_update[i],
         recompute |-> recompute]

\* A compositor request pad as the compositor hands it out.
NewPad(i) == [slot |-> i, xpos |-> 0, ypos |-> 0, width |-> 0, height |-> 0, alpha |-> 1]

\* The xpos/ypos branches shared by lines 242-253 and 288-299.
GridPos(pad, index) ==
    IF index = 0 THEN [pad EXCEPT !.xpos = 0, !.ypos = 0]
    ELSE IF index = 1 THEN [pad EXCEPT !.xpos = video_width, !.ypos = 0]
    ELSE IF index = 2 THEN [pad EXCEPT !.xpos = 0, !.ypos = video_height]
    ELSE IF index = 3 THEN [pad EXCEPT !.xpos = video_width, !.ypos = video_height]
    ELSE pad

set_compositor_sink_properties(sink_pad, index) ==
    [GridPos(sink_pad, index) EXCEPT !.width = video_width,
                                     !.height = video_height,
                                     !.alpha = 1]

\* enumerate() is 0-based, sequences are 1-based: list position p-1.
set_tiled_view(pads) ==
    [p \in DOMAIN pads |->
        [GridPos(pads[p], p - 1) EXCEPT !.width = video_width,
                                        !.height = video_height,
                                        !.alpha = 1]]

\* Mutant of set_single_camera_view: the hidden tiles are released instead
\* of being made transparent.
set_single_camera_view_relinks(pads, camera_index, output_width, output_height) ==
    IF camera_index + 1 \in DOMAIN pads
    THEN <<[pads[camera_index + 1] EXCEPT !.xpos = 0, !.ypos = 0,
                                          !.width = output_width,
                                          !.height = output_height,
                                          !.alpha = 1]>>
    ELSE <<>>

set_single_camera_view(pads, camera_index, output_width, output_height) ==
    [p \in DOMAIN pads |->
        IF p - 1 = camera_index
        THEN [pads[p] EXCEPT !.xpos = 0, !.ypos = 0,
                             !.width = output_width,
                             !.height = output_height,
                             !.alpha = 1]
        ELSE [pads[p] EXCEPT !.alpha = 0]]

\* Mutant of next_view: the wrap-around comes one step early.
next_view_wraps_early(v) == IF v + 1 >= 3 THEN -1 ELSE v + 1

\* self.current_view += 1; if self.current_view > 3: self.current_view = -1
next_view(v) == IF v + 1 > 3 THEN -1 ELSE v + 1

ElemName(kind, i) ==
    CASE kind = "src" -> <<"src_0", "src_1", "src_2", "src_3">>[i + 1]
      [] kind = "convert" -> <<"convert_0", "convert_1", "convert_2", "convert_3">>[i + 1]
      [] kind = "scale" -> <<"scale_0", "scale_1", "scale_2", "scale_3">>[i + 1]
      [] kind = "caps" -> <<"caps_0", "caps_1", "caps_2", "caps_3">>[i + 1]
      [] kind = "textoverlay" ->
           <<"textoverlay_0", "textoverlay_1", "textoverlay_2", "textoverlay_3">>[i + 1]

BranchElems(i, outcome) ==
    IF outcome = "skipped" THEN {}
    ELSE {ElemName(k, i) : k \in {"src", "convert", "scale", "caps"}}
         \cup (IF outcome = "no_overlay" THEN {} ELSE {ElemName("textoverlay", i)})

\* Mutant of create_and_link_sources: the pass over the devices ends at the
\* first branch that cannot be built.
create_and_link_sources_stops(outcomes) ==
    LET order == [p \in 1 .. Len(video_devices) |-> p - 1]
        reached == {i \in DeviceIndex :
                       \A j \in 0 .. i : outcomes[j] # "skipped"}
        linked == SelectSeq(order, LAMBDA i : i \in reached
                                              /\ outcomes[i] \in {"ok", "no_overlay"})
        withOverlay == {i \in reached : outcomes[i] \in {"ok", "no_pad"}}
    IN  [pads |-> [p \in 1 .. Len(linked) |->
                      set_compositor_sink_properties(NewPad(linked[p]), linked[p])],
         overlays |-> withOverlay,
         probes |-> withOverlay,
         elems |-> UNION {BranchElems(i, outcomes[i]) : i \in reached}]

\* Mutant of create_and_link_sources: the fallback link of a branch without
\* textoverlay gets a buffer probe as well.
create_and_link_sources_probes_fallback(outcomes) ==
    LET order == [p \in 1 .. Len(video_devices) |-> p - 1]
        linked == SelectSeq(order, LAMBDA i : outcomes[i] \in {"ok", "no_overlay"})
        withOverlay == {i \in DeviceIndex : outcomes[i] \in {"ok", "no_pad"}}
    IN  [pads |-> [p \in 1 .. Len(linked) |->
                      set_compositor_sink_properties(NewPad(linked[p]), linked[p])],
         overlays |-> withOverlay,
         probes |-> withOverlay \cup {i \in DeviceIndex : outcomes[i] = "no_overlay"},
         elems |-> UNION {BranchElems(i, outcomes[i]) : i \in DeviceIndex}]

\* _create_and_link_sources: what one pass over the devices leaves behind.
create_and_link_sources(outcomes) ==
    LET order == [p \in 1 .. Len(video_devices) |-> p - 1]
        linked == SelectSeq(order, LAMBDA i : outcomes[i] \in {"ok", "no_overlay"})
        withOverlay == {i \in DeviceIndex : outcomes[i] \in {"ok", "no_pad"}}
    IN  [pads |-> [p \in 1 .. Len(linked) |->
                      set_compositor_sink_properties(NewPad(linked[p]), linked[p])],
         overlays |-> withOverlay,
         probes |-> withOverlay,
         elems |-> UNION {BranchElems(i, outcomes[i]) : i \in DeviceIndex}]

\* The ways _set_window_id_after_start knows to hand the window to the
\* sink, in the order of its code: the VideoOverlay interface, the sink's
\* own set_window_handle, then set_property with each candidate name.
AttachStrategies ==
    <<"VideoOverlay", "direct", "window-id", "xid", "xwindow-id", "window">>

\* Which strategies would go through on the sink at hand, if tried.
AttachWorks == [{AttachStrategies[n] : n \in DOMAIN AttachStrategies} -> BOOLEAN]

NoneWorks == [s \in {AttachStrategies[n] : n \in DOMAIN AttachStrategies} |-> FALSE]

AllWork == [s \in {AttachStrategies[n] : n \in DOMAIN AttachStrategies} |-> TRUE]

\* Mutant of set_window_id_after_start: a success does not end the pass.
RECURSIVE set_window_id_after_start_goes_on(_, _)
set_window_id_after_start_goes_on(works, n) ==
    IF n > Len(AttachStrategies) THEN [tried |-> <<>>, via |-> "none"]
    ELSE LET rest == set_window_id_after_start_goes_on(works, n + 1)
         IN  [tried |-> <<AttachStrategies[n]>> \o rest.tried,
              via |-> IF works[AttachStrategies[n]] THEN AttachStrategies[n]
                      ELSE rest.via]

\* _set_window_id_after_start from strategy n on: each strategy is tried
\* in turn; the first that raises nothing returns, an exception moves on.
RECURSIVE set_window_id_after_start(_, _)
set_window_id_after_start(works, n) ==
    IF n > Len(AttachStrategies) THEN [tried |-> <<>>, via |-> "none"]
    ELSE IF works[AttachStrategies[n]]
    THEN [tried |-> <<AttachStrategies[n]>>, via |-> AttachStrategies[n]]
    ELSE LET rest == set_window_id_after_start(works, n + 1)
         IN  [tried |-> <<AttachStrategies[n]>> \o rest.tried, via |-> rest.via]

\* Mutant of create_video_sink: the handle is set on the sink at creation.
create_video_sink_attaches(wid) ==
    [window_id |-> wid, sink_handle |-> wid,
     elems |-> {"final_convert", "video_sink"}]

\* _create_video_sink: the handle is only stored, the sink gets none.
create_video_sink(wid) ==
    [window_id |-> wid, sink_handle |-> "None",
     elems |-> {"final_convert", "video_sink"}]

\* What a call leaves in `last`: its name, return value, the highest log
\* level it emitted, whether it tried to attach the window handle, what
\* its set_state call returned ("None": no such call), whether the call
\* before it was the same operation, whether a pipeline existed, the time
\* of the call and, for a probe callback, its camera (else -1), what it
\* did to the latency samples ("none", "kept": appended, "evicted":
\* appended and the oldest popped) and the gap between the arrivals of
\* the frames counted in the camera's metering window ({d}: all d ticks
\* apart, {-1}: not evenly spaced); for a start, the attachment strategies
\* it tried, in order, and the one that succeeded ("none": none did).
Called(op, ret, log, attach, sc) ==
    [op |-> op, ret |-> ret, log |-> log, attach |-> attach, sc |-> sc,
     rep |-> last.op = op, had |-> pipeline # "None", at |-> now, cam |-> -1,
     push |-> "none", gaps |-> {}, tried |-> <<>>, via |-> "none"]

\* The positions of the event thread and of the streaming thread when
\* neither is inside a call.
IdleThreads ==
    [event |-> "idle", stream |-> [i \in DeviceIndex |-> "idle"]]

\* Branch outcomes when no pass over the devices was made.
NotBuilt == [i \in DeviceIndex |-> "none"]

\* latency_buffer_times as __init__ and create_pipeline leave it.
NoSamples == [i \in DeviceIndex |-> <<>>]

\* An X event as the handlers read it: its type and its detail (the
\* keysym of a key, the number of a button, the atom of a client message).
XEvent(type, detail) == [type |-> type, detail |-> detail]

\* `dispatched` before any event was dispatched.
NoEvent == "none"

\* is_running()
is_running == running /\ pipeline # "None"

\* A setting of Config that holds a number, and one that holds None (what
\* an option not given on the command line leaves in args).
Num(n) == [none |-> FALSE, n |-> n]

NoNumber == [none |-> TRUE, n |-> 0]

\* A setting that holds a string, as the sequence of its characters, and
\* one that holds None.
Str(chars) == [none |-> FALSE, s |-> chars]

NoString == [none |-> TRUE, s |-> <<>>]

\* VideoConfig(), WindowConfig() and LoggingConfig(): the defaults of the
\* settings validate() reads.
DefaultConfig ==
    [video_width |-> Num(1920), video_height |-> Num(1080),
     output_width |-> Num(3840), output_height |-> Num(2160),
     window_width |-> Num(3840), window_height |-> Num(2160),
     level |-> Str(<<"I", "N", "F", "O">>)]

(***************************************************************************)
(* Init: GStreamerManager.__init__, X11WindowManager.__init__,             *)
(* MainWindow before __init__, Config() without a configuration file       *)
(***************************************************************************)
Init ==
    /\ pipeline = "None"
    /\ gst_state = "NULL"
    /\ elements = {}
    /\ sink_handle = "None"
    /\ probes = {}
    /\ running = FALSE
    /\ window_id = "unset"
    /\ current_view = -1
    /\ compositor_sink_pads = <<>>
    /\ fps_overlays = {}
    /\ overlay_text = [i \in {} |-> EmptyText]
    /\ fps_values = ZeroMetrics
    /\ latency_values = ZeroMetrics
    /\ fps_overlay_visible = FALSE
    /\ fps_hide_timer = "None"
    /\ timers = {}
    /\ fps_frame_counts = ZeroMetrics
    /\ fps_last_update = ZeroMetrics
    /\ latency_buffer_times = NoSamples
    /\ fps_lock = "None"
    /\ now = 0
    /\ thread_pc = IdleThreads
    /\ built_as = NotBuilt
    /\ activity_at = -1
    /\ last = [op |-> "__init__", ret |-> "None", log |-> "info",
               attach |-> FALSE, sc |-> "None", rep |-> FALSE, had |-> FALSE,
               at |-> 0, cam |-> -1, push |-> "none", gaps |-> {},
               tried |-> <<>>, via |-> "none"]
    /\ view_hist = <<>>
    /\ x11_manager = [window |-> "None", running |-> FALSE, dpy |-> "Display",
                      event_handlers |-> {}]
    /\ xserver = [windows |-> {}, events |-> <<>>]
    /\ main_window = [running |-> FALSE, current_view_mode |-> "FOUR_WAY",
                      at |-> "__init__",
                      gstreamer_manager |-> "GStreamerManager",
                      x11_manager |-> "X11WindowManager"]
    /\ dispatched = NoEvent
    /\ config = DefaultConfig

(***************************************************************************)
(* Operations of GStreamerManager                                          *)
(***************************************************************************)
\* Mutant of stop_pipeline: the running flag is not cleared.
stop_pipeline_keeps_running ==
    /\ IF pipeline # "None"
       THEN /\ gst_state' = "NULL"
            /\ last' = Called("stop_pipeline", "None", "info", FALSE, "SUCCESS")
       ELSE /\ UNCHANGED gst_state
            /\ last' = Called("stop_pipeline", "None", "none", FALSE, "None")
    /\ UNCHANGED <<pipeline, elements, sink_handle, probes, running, window_id,
                   current_view, compositor_sink_pads, fps_overlays,
                   overlay_text, fps_values, latency_values,
                   fps_overlay_visible, fps_hide_timer, quiet_vars>>

\* stop_pipeline: set_state(NULL) and running = False, only with a pipeline.
stop_pipeline ==
    /\ IF pipeline # "None"
       THEN /\ gst_state' = "NULL"
            /\ running' = FALSE
            /\ last' = Called("stop_pipeline", "None", "info", FALSE, "SUCCESS")
       ELSE /\ UNCHANGED <<gst_state, running>>
            /\ last' = Called("stop_pipeline", "None", "none", FALSE, "None")
    /\ UNCHANGED <<pipeline, elements, sink_handle, probes, window_id,
                   current_view, compositor_sink_pads, fps_overlays,
                   overlay_text, fps_values, latency_values,
                   fps_overlay_visible, fps_hide_timer, quiet_vars>>

\* The assignments destroy_pipeline makes (stop_pipeline, then pipeline =
\* None); the pipeline object takes its elements, probes and sink with it.
DestroyEffect ==
    IF pipeline # "None"
    THEN /\ pipeline' = "None"
         /\ gst_state' = "NULL"
         /\ running' = FALSE
         /\ elements' = {}
         /\ sink_handle' = "None"
         /\ probes' = {}
    ELSE UNCHANGED <<pipeline, gst_state, running, elements, sink_handle, probes>>

\* Mutant of destroy_pipeline: the pipeline is stopped but not released.
destroy_pipeline_keeps_pipeline ==
    /\ IF pipeline # "None"
       THEN gst_state' = "NULL" /\ running' = FALSE
       ELSE UNCHANGED <<gst_state, running>>
    /\ last' = Called("destroy_pipeline", "None",
                      IF pipeline # "None" THEN "info" ELSE "none", FALSE,
                      IF pipeline # "None" THEN "SUCCESS" ELSE "None")
    /\ UNCHANGED <<pipeline, elements, sink_handle, probes, window_id,
                   current_view, compositor_sink_pads, fps_overlays,
                   overlay_text, fps_values, latency_values,
                   fps_overlay_visible, fps_hide_timer, quiet_vars>>

destroy_pipeline ==
    /\ DestroyEffect
    /\ last' = Called("destroy_pipeline", "None",
                      IF pipeline # "None" THEN "info" ELSE "none", FALSE,
                      IF pipeline # "None" THEN "SUCCESS" ELSE "None")
    /\ UNCHANGED <<window_id, current_view, compositor_sink_pads, fps_overlays,
                   overlay_text, fps_values, latency_values,
                   fps_overlay_visible, fps_hide_timer, quiet_vars>>

\* Mutant of close: the timer is cancelled but the pipeline is left alone.
close_keeps_pipeline ==
    /\ timers' = cancel_hide_timer(timers, fps_hide_timer)
    /\ fps_hide_timer' = "None"
    /\ last' = Called("close", "None", "info", FALSE, "None")
    /\ UNCHANGED <<pipeline, gst_state, running, elements, sink_handle, probes,
                   window_id, current_view, compositor_sink_pads, fps_overlays,
                   overlay_text, fps_values, latency_values, fps_overlay_visible,
                   sampler_vars, now, thread_pc, built_as, activity_at>>

\* close: _cancel_hide_timer(), then destroy_pipeline().
close ==
    /\ timers' = cancel_hide_timer(timers, fps_hide_timer)
    /\ fps_hide_timer' = "None"
    /\ DestroyEffect
    /\ last' = Called("close", "None", "info", FALSE,
                      IF pipeline # "None" THEN "SUCCESS" ELSE "None")
    /\ UNCHANGED <<window_id, current_view, compositor_sink_pads, fps_overlays,
                   overlay_text, fps_values, latency_values, fps_overlay_visible,
                   sampler_vars, now, thread_pc, built_as, activity_at>>

\* Mutant of create_pipeline: the view mode, the pad list and the overlay
\* map of the previous graph are kept and added to.
create_pipeline_keeps_tracking(wid, compOk, sinkOk, capsOk, outcomes) ==
    LET built == create_and_link_sources(outcomes)
        sink == create_video_sink(wid)
        fatal == ~compOk \/ ~sinkOk
        degraded == \E i \in DeviceIndex : outcomes[i] # "ok"
    IN  \* lines 85-104: destroy an old pipeline, reset, new empty pipeline
        /\ pipeline' = "Pipeline"
        /\ gst_state' = "NULL"
        /\ running' = IF pipeline # "None" THEN FALSE ELSE running
        /\ UNCHANGED current_view
        /\ fps_values' = ZeroMetrics
        /\ latency_values' = ZeroMetrics
        /\ fps_frame_counts' = ZeroMetrics
        /\ latency_buffer_times' = NoSamples
        /\ UNCHANGED <<fps_overlay_visible, fps_hide_timer, timers, fps_lock,
                       now, thread_pc, activity_at>>
        /\ IF fatal
           THEN \* lines 108-109 / 497, 505: raise, caught at line 143
                /\ elements' = {}
                /\ sink_handle' = "None"
                /\ probes' = {}
                /\ compositor_sink_pads' = <<>>
                /\ fps_overlays' = {}
                /\ overlay_text' = [i \in {} |-> EmptyText]
                /\ fps_last_update' = ZeroMetrics
                /\ built_as' = NotBuilt
                /\ UNCHANGED window_id
                /\ last' = Called("create_pipeline", "False", "error", FALSE, "None")
           ELSE /\ elements' = {"comp"} \cup sink.elems \cup built.elems
                                \cup (IF capsOk THEN {"output_caps"} ELSE {})
                /\ sink_handle' = sink.sink_handle
                /\ window_id' = sink.window_id
                /\ probes' = built.probes
                /\ compositor_sink_pads' = compositor_sink_pads \o built.pads
                /\ fps_overlays' = fps_overlays \cup built.overlays
                /\ overlay_text' =
                       [i \in fps_overlays \cup built.overlays |-> FormatText(0, 0)]
                /\ fps_last_update' =
                       [i \in DeviceIndex |-> IF i \in built.probes THEN now ELSE 0]
                /\ built_as' = outcomes
                /\ last' = Called("create_pipeline", "True",
                                  IF degraded THEN "warning" ELSE "info", FALSE, "None")

\* create_pipeline(window_id).  compOk, sinkOk, capsOk say whether
\* ElementFactory.make yields the compositor, the sink chain (videoconvert
\* and one of xvimagesink/ximagesink) and the output capsfilter; outcomes
\* gives the fate of each source branch.
create_pipeline(wid, compOk, sinkOk, capsOk, outcomes) ==
    LET built == create_and_link_sources(outcomes)
        sink == create_video_sink(wid)
        fatal == ~compOk \/ ~sinkOk
        degraded == \E i \in DeviceIndex : outcomes[i] # "ok"
    IN  \* lines 85-104: destroy an old pipeline, reset, new empty pipeline
        /\ pipeline' = "Pipeline"
        /\ gst_state' = "NULL"
        /\ running' = IF pipeline # "None" THEN FALSE ELSE running
        /\ current_view' = -1
        /\ fps_values' = ZeroMetrics
        /\ latency_values' = ZeroMetrics
        /\ fps_frame_counts' = ZeroMetrics
        /\ latency_buffer_times' = NoSamples
        /\ UNCHANGED <<fps_overlay_visible, fps_hide_timer, timers, fps_lock,
                       now, thread_pc, activity_at>>
        /\ IF fatal
           THEN \* lines 108-109 / 497, 505: raise, caught at line 143
                /\ elements' = {}
                /\ sink_handle' = "None"
                /\ probes' = {}
                /\ compositor_sink_pads' = <<>>
                /\ fps_overlays' = {}
                /\ overlay_text' = [i \in {} |-> EmptyText]
                /\ fps_last_update' = ZeroMetrics
                /\ built_as' = NotBuilt
                /\ UNCHANGED window_id
                /\ last' = Called("create_pipeline", "False", "error", FALSE, "None")
           ELSE /\ elements' = {"comp"} \cup sink.elems \cup built.elems
                                \cup (IF capsOk THEN {"output_caps"} ELSE {})
                /\ sink_handle' = sink.sink_handle
                /\ window_id' = sink.window_id
                /\ probes' = built.probes
                /\ compositor_sink_pads' = built.pads
                /\ fps_overlays' = built.overlays
                /\ overlay_text' = [i \in built.overlays |-> FormatText(0, 0)]
                /\ fps_last_update' =
                       [i \in DeviceIndex |-> IF i \in built.probes THEN now ELSE 0]
                /\ built_as' = outcomes
                /\ last' = Called("create_pipeline", "True",
                                  IF degraded THEN "warning" ELSE "info", FALSE, "None")

\* Mutant of start_pipeline: running is set before the FAILURE check.
start_pipeline_sets_running_early(ret, reached, works) ==
    /\ UNCHANGED <<pipeline, elements, probes, window_id, current_view,
                   compositor_sink_pads, fps_overlays, overlay_text,
                   fps_values, latency_values, fps_overlay_visible,
                   fps_hide_timer, quiet_vars>>
    /\ IF pipeline = "None"
       THEN /\ UNCHANGED <<gst_state, running, sink_handle>>
            /\ last' = Called("start_pipeline", "False", "error", FALSE, "None")
       ELSE IF ret = "FAILURE"
       THEN /\ gst_state' = IF gst_state = "PLAYING" THEN gst_state ELSE reached
            /\ running' = TRUE
            /\ UNCHANGED sink_handle
            /\ last' = Called("start_pipeline", "False", "error", FALSE, ret)
       ELSE LET attempt == window_id \notin {"unset", "None"}
                found == "video_sink" \in elements
                pass == IF attempt /\ found
                        THEN set_window_id_after_start(works, 1)
                        ELSE [tried |-> <<>>, via |-> "none"]
            IN  /\ gst_state' = "PLAYING"
                /\ running' = TRUE
                /\ sink_handle' = IF pass.via # "none" THEN window_id
                                  ELSE sink_handle
                /\ last' = [Called("start_pipeline", "True",
                                   IF attempt /\ pass.via = "none"
                                   THEN "warning" ELSE "info", attempt, ret)
                               EXCEPT !.tried = pass.tried, !.via = pass.via]

\* start_pipeline.  ret is what set_state(PLAYING) returns, reached the
\* state a failed change leaves the pipeline in, works which strategies
\* of _set_window_id_after_start would succeed on the sink.
start_pipeline(ret, reached, works) ==
    /\ UNCHANGED <<pipeline, elements, probes, window_id, current_view,
                   compositor_sink_pads, fps_overlays, overlay_text,
                   fps_values, latency_values, fps_overlay_visible,
                   fps_hide_timer, quiet_vars>>
    /\ IF pipeline = "None"
       THEN /\ UNCHANGED <<gst_state, running, sink_handle>>
            /\ last' = Called("start_pipeline", "False", "error", FALSE, "None")
       ELSE IF ret = "FAILURE"
       THEN /\ gst_state' = IF gst_state = "PLAYING" THEN gst_state ELSE reached
            /\ UNCHANGED <<running, sink_handle>>
            /\ last' = Called("start_pipeline", "False", "error", FALSE, ret)
       ELSE LET attempt == window_id \notin {"unset", "None"}
                found == "video_sink" \in elements
                pass == IF attempt /\ found
                        THEN set_window_id_after_start(works, 1)
                        ELSE [tried |-> <<>>, via |-> "none"]
            IN  /\ gst_state' = "PLAYING"
                /\ running' = TRUE
                /\ sink_handle' = IF pass.via # "none" THEN window_id
                                  ELSE sink_handle
                /\ last' = [Called("start_pipeline", "True",
                                   IF attempt /\ pass.via = "none"
                                   THEN "warning" ELSE "info", attempt, ret)
                               EXCEPT !.tried = pass.tried, !.via = pass.via]

\* cycle_view: guarded by the pad list, not by the pipeline.
cycle_view ==
    /\ UNCHANGED <<pipeline, gst_state, elements, sink_handle, probes, running,
                   window_id, fps_overlays, overlay_text, fps_values,
                   latency_values, fps_overlay_visible, fps_hide_timer, quiet_vars>>
    /\ IF compositor_sink_pads = <<>>
       THEN /\ UNCHANGED <<current_view, compositor_sink_pads>>
            /\ last' = Called("cycle_view", "None", "warning", FALSE, "None")
       ELSE LET output_width == video_width * 2
                output_height == video_height * 2
                v == next_view(current_view)
            IN  /\ current_view' = v
                /\ compositor_sink_pads' =
                       IF v = -1
                       THEN set_tiled_view(compositor_sink_pads)
                       ELSE set_single_camera_view(compositor_sink_pads, v,
                                                   output_width, output_height)
                /\ last' = Called("cycle_view", "None", "info", FALSE, "None")

\* _update_fps_display for every registered overlay.
update_fps_display(visible) ==
    [i \in fps_overlays |->
        IF visible THEN FormatText(fps_values[i], latency_values[i]) ELSE EmptyText]

\* on_mouse_activity: show_fps_overlay(), then _schedule_hide_overlay().
on_mouse_activity ==
    LET started == schedule_hide_overlay(
                       cancel_hide_timer(timers, fps_hide_timer), "None", now)
    IN  /\ CanSchedule(timers, fps_hide_timer)
        /\ fps_overlay_visible' = TRUE
        /\ overlay_text' = update_fps_display(TRUE)
        /\ timers' = started.timers
        /\ fps_hide_timer' = started.ref
        /\ last' = Called("on_mouse_activity", "None", "info", FALSE, "None")
        /\ activity_at' = now
        /\ UNCHANGED <<pipeline, gst_state, elements, sink_handle, probes,
                       running, window_id, current_view, compositor_sink_pads,
                       fps_overlays, fps_values, latency_values, sampler_vars,
                       now, thread_pc, built_as>>

\* The waiting Timer tm expires and runs hide_fps_overlay on its thread.
hide_fps_overlay(tm) ==
    /\ tm \in timers
    /\ tm.at = "waiting"
    /\ timers' = cancel_hide_timer(timers \ {tm}, fps_hide_timer)
    /\ fps_hide_timer' = "None"
    /\ fps_overlay_visible' = FALSE
    /\ overlay_text' = [i \in fps_overlays |-> EmptyText]
    /\ last' = Called("hide_fps_overlay", "None", "info", FALSE, "None")
    /\ UNCHANGED <<pipeline, gst_state, elements, sink_handle, probes, running,
                   window_id, current_view, compositor_sink_pads, fps_overlays,
                   fps_values, latency_values, sampler_vars, now, thread_pc,
                   built_as, activity_at>>

\* Direct calls of the two layout helpers (they leave current_view alone).
apply_tiled_view ==
    /\ compositor_sink_pads' = set_tiled_view(compositor_sink_pads)
    /\ last' = Called("_set_tiled_view", "None", "none", FALSE, "None")
    /\ UNCHANGED <<pipeline, gst_state, elements, sink_handle, probes, running,
                   window_id, current_view, fps_overlays, overlay_text,
                   fps_values, latency_values, fps_overlay_visible,
                   fps_hide_timer, quiet_vars>>

apply_single_camera_view(camera_index) ==
    /\ compositor_sink_pads' =
           set_single_camera_view(compositor_sink_pads, camera_index,
                                  video_width * 2, video_height * 2)
    /\ last' = Called("_set_single_camera_view", "None", "none", FALSE, "None")
    /\ UNCHANGED <<pipeline, gst_state, elements, sink_handle, probes, running,
                   window_id, current_view, fps_overlays, overlay_text,
                   fps_values, latency_values, fps_overlay_visible,
                   fps_hide_timer, quiet_vars>>

\* The buffers a probe can see: without a buffer, without a PTS, and with
\* a PTS before, at or after the running time, with or without a clock.
Frames ==
    {[buffer |-> FALSE, pts |-> CLOCK_TIME_NONE, clock |-> FALSE, running_time |-> 0],
     [buffer |-> TRUE, pts |-> CLOCK_TIME_NONE, clock |-> TRUE,
      running_time |-> 5000000]}
    \cup {[buffer |-> TRUE, pts |-> p, clock |-> c, running_time |-> 5000000] :
             p \in {2500000, 5000000, 7000000}, c \in BOOLEAN}

\* What the callback of camera i observes for `last`.
Sampled(i, frame) ==
    LET sample == LatencySample(frame, fps_values[i], pipeline)
        since == IF last.op = "_fps_probe_callback" /\ last.cam = i
                 THEN last.at ELSE fps_last_update[i]
        open == last.op = "_fps_probe_callback" /\ last.cam = i
                    /\ fps_frame_counts[i] > 0
    IN  [Called("_fps_probe_callback", "OK", "none", FALSE, "None")
            EXCEPT !.cam = i,
                   !.push = IF sample = <<>> THEN "none"
                            ELSE IF Len(latency_buffer_times[i]) >= LatencyCap
                            THEN "evicted" ELSE "kept",
                   !.gaps = IF open /\ last.gaps # {now - since}
                            THEN {-1} ELSE {now - since}]

\* _fps_probe_callback(pad, info, camera_index) from entry to return: the
\* frame is counted, its latency sampled, the FPS recomputed once a second
\* has passed, and then the overlay text of the camera rewritten.
fps_probe_callback(i, frame) ==
    LET m == SampleMetrics(i, frame, now)
    IN  /\ i \in probes
        /\ gst_state = "PLAYING"
        /\ fps_frame_counts' = [fps_frame_counts EXCEPT ![i] = m.count]
        /\ latency_buffer_times' = [latency_buffer_times EXCEPT ![i] = m.buf]
        /\ latency_values' = [latency_values EXCEPT ![i] = m.latency]
        /\ fps_values' = [fps_values EXCEPT ![i] = m.fps]
        /\ fps_last_update' = [fps_last_update EXCEPT ![i] = m.last_update]
        /\ overlay_text' =
               IF m.recompute /\ i \in fps_overlays
               THEN [overlay_text EXCEPT ![i] =
                        IF fps_overlay_visible THEN FormatText(m.fps, m.latency)
                        ELSE EmptyText]
               ELSE overlay_text
        /\ last' = Sampled(i, frame)
        /\ UNCHANGED <<pipeline, gst_state, elements, sink_handle, probes,
                       running, window_id, current_view, compositor_sink_pads,
                       fps_overlays, fps_overlay_visible, fps_hide_timer,
                       timers, fps_lock, now, thread_pc, built_as, activity_at>>

(***************************************************************************)
(* The same operations as their threads run them.  on_mouse_activity runs  *)
(* on the event thread, hide_fps_overlay on the thread of the Timer that   *)
(* expired, _fps_probe_callback on the streaming thread of its camera; a   *)
(* step is a stretch of a method between two points where another thread   *)
(* can be scheduled.  Calls take no time on the scale of the clock.        *)
(***************************************************************************)
\* No thread is inside a call.
ThreadsIdle ==
    /\ thread_pc = IdleThreads
    /\ \A tm \in timers : tm.at = "waiting"

\* Time passes by one tick, unless a Timer is due.
tick ==
    /\ now < MaxTime
    /\ ThreadsIdle
    /\ \A tm \in timers : now < tm.deadline
    /\ now' = now + 1
    /\ UNCHANGED <<mgr_vars, thread_pc, built_as, activity_at, last>>

\* on_mouse_activity, lines 434-435 of show_fps_overlay: cancel the pending
\* timer, fps_overlay_visible = True.
activity_show ==
    /\ thread_pc.event = "idle"
    /\ Cardinality(timers) < Cardinality(TimerIds)
    /\ timers' = cancel_hide_timer(timers, fps_hide_timer)
    /\ fps_hide_timer' = "None"
    /\ fps_overlay_visible' = TRUE
    /\ thread_pc' = [thread_pc EXCEPT !.event = "update"]
    /\ UNCHANGED <<graph_vars_but_visible, now, built_as, activity_at, last>>

\* on_mouse_activity, lines 438-440: _update_fps_display for every overlay;
\* fps_lock is not taken.
activity_update ==
    /\ thread_pc.event = "update"
    /\ overlay_text' = update_fps_display(fps_overlay_visible)
    /\ thread_pc' = [thread_pc EXCEPT !.event = "schedule"]
    /\ UNCHANGED <<pipeline, gst_state, elements, sink_handle, probes, running,
                   window_id, current_view, compositor_sink_pads, fps_overlays,
                   fps_values, latency_values, fps_overlay_visible,
                   fps_hide_timer, timers, sampler_vars, now, built_as,
                   activity_at, last>>

\* on_mouse_activity, _schedule_hide_overlay, and the return.
activity_schedule ==
    LET started == schedule_hide_overlay(timers, fps_hide_timer, now)
    IN  /\ thread_pc.event = "schedule"
        /\ timers' = started.timers
        /\ fps_hide_timer' = started.ref
        /\ thread_pc' = [thread_pc EXCEPT !.event = "idle"]
        /\ activity_at' = now
        /\ last' = Called("on_mouse_activity", "None", "info", FALSE, "None")
        /\ UNCHANGED <<graph_vars, now, built_as>>

\* The state of Timer tm becomes st.
TimerAt(ts, tm, st) == (ts \ {tm}) \cup {[tm EXCEPT !.at = st]}

\* Timer.run: the interval of tm is over and it was not cancelled; from
\* here on cancel() no longer stops it.
timer_fires(tm) ==
    /\ tm \in timers /\ tm.at = "waiting"
    /\ now >= tm.deadline
    /\ timers' = TimerAt(timers, tm, "fired")
    /\ UNCHANGED <<graph_vars, fps_hide_timer, now, thread_pc, built_as,
                   activity_at, last>>

\* hide_fps_overlay on the thread of tm, line 463: self.fps_hide_timer.cancel()
timer_cancel(tm) ==
    /\ tm \in timers /\ tm.at = "fired"
    /\ timers' = TimerAt(cancel_hide_timer(timers, fps_hide_timer), tm, "cancelled")
    /\ UNCHANGED <<graph_vars, fps_hide_timer, now, thread_pc, built_as,
                   activity_at, last>>

\* line 464: self.fps_hide_timer = None
timer_clear(tm) ==
    /\ tm \in timers /\ tm.at = "cancelled"
    /\ fps_hide_timer' = "None"
    /\ timers' = TimerAt(timers, tm, "cleared")
    /\ UNCHANGED <<graph_vars, now, thread_pc, built_as, activity_at, last>>

\* lines 449-454: fps_overlay_visible = False, every text cleared; the
\* thread of tm ends.
timer_hide(tm) ==
    /\ tm \in timers /\ tm.at = "cleared"
    /\ timers' = timers \ {tm}
    /\ fps_overlay_visible' = FALSE
    /\ overlay_text' = [i \in fps_overlays |-> EmptyText]
    /\ last' = Called("hide_fps_overlay", "None", "info", FALSE, "None")
    /\ UNCHANGED <<pipeline, gst_state, elements, sink_handle, probes, running,
                   window_id, current_view, compositor_sink_pads, fps_overlays,
                   fps_values, latency_values, fps_hide_timer, sampler_vars,
                   now, thread_pc, built_as, activity_at>>

\* The name under which the streaming thread of camera i holds fps_lock.
StreamThread(i) == <<"stream0", "stream1", "stream2", "stream3">>[i + 1]

\* The stretch of its callback the streaming thread of camera i enters.
StreamAt(i, at) == [thread_pc EXCEPT !.stream[i] = at]

\* _fps_probe_callback, lines 349-352: time.time(), get_buffer() and the
\* acquisition of fps_lock, which waits while another thread holds it.
probe_enter(i) ==
    /\ i \in probes /\ gst_state = "PLAYING"
    /\ thread_pc.stream[i] = "idle"
    /\ fps_lock = "None"
    /\ fps_lock' = StreamThread(i)
    /\ thread_pc' = StreamAt(i, "locked")
    /\ UNCHANGED <<pipeline, gst_state, elements, sink_handle, probes, running,
                   window_id, current_view, compositor_sink_pads, fps_overlays,
                   overlay_text, fps_values, latency_values,
                   fps_overlay_visible, fps_hide_timer, timers,
                   fps_frame_counts, fps_last_update, latency_buffer_times,
                   now, built_as, activity_at, last>>

\* lines 353-391: the frame is counted and its latency sampled.
probe_sample(i, frame) ==
    LET m == SampleMetrics(i, frame, now)
    IN  /\ thread_pc.stream[i] = "locked"
        /\ fps_frame_counts' =
               [fps_frame_counts EXCEPT ![i] = fps_frame_counts[i] + 1]
        /\ latency_buffer_times' = [latency_buffer_times EXCEPT ![i] = m.buf]
        /\ latency_values' = [latency_values EXCEPT ![i] = m.latency]
        /\ thread_pc' = StreamAt(i, "sampled")
        /\ UNCHANGED <<pipeline, gst_state, elements, sink_handle, probes,
                       running, window_id, current_view, compositor_sink_pads,
                       fps_overlays, overlay_text, fps_values,
                       fps_overlay_visible, fps_hide_timer, timers,
                       fps_last_update, fps_lock, now, built_as, activity_at,
                       last>>

\* lines 394-399: the FPS is recomputed once a second has passed.
probe_recompute(i) ==
    LET elapsed == now - fps_last_update[i]
        due == elapsed >= TicksPerSec /\ elapsed > 0
    IN  /\ thread_pc.stream[i] = "sampled"
        /\ fps_values' =
               IF due
               THEN [fps_values EXCEPT ![i] =
                        (fps_frame_counts[i] * TicksPerSec * 100) \div elapsed]
               ELSE fps_values
        /\ fps_frame_counts' =
               IF due THEN [fps_frame_counts EXCEPT ![i] = 0] ELSE fps_frame_counts
        /\ fps_last_update' =
               IF due THEN [fps_last_update EXCEPT ![i] = now] ELSE fps_last_update
        /\ thread_pc' = StreamAt(i, IF due THEN "display" ELSE "release")
        /\ UNCHANGED <<pipeline, gst_state, elements, sink_handle, probes,
                       running, window_id, current_view, compositor_sink_pads,
                       fps_overlays, overlay_text, latency_values,
                       fps_overlay_visible, fps_hide_timer, timers,
                       latency_buffer_times, fps_lock, now, built_as,
                       activity_at, last>>

\* line 402: _update_fps_display(camera_index), inside the with block.
probe_display(i) ==
    /\ thread_pc.stream[i] = "display"
    /\ overlay_text' =
           IF i \in fps_overlays
           THEN [overlay_text EXCEPT ![i] =
                    IF fps_overlay_visible
                    THEN FormatText(fps_values[i], latency_values[i])
                    ELSE EmptyText]
           ELSE overlay_text
    /\ thread_pc' = StreamAt(i, "release")
    /\ UNCHANGED <<pipeline, gst_state, elements, sink_handle, probes, running,
                   window_id, current_view, compositor_sink_pads, fps_overlays,
                   fps_values, latency_values, fps_overlay_visible,
                   fps_hide_timer, timers, sampler_vars, now, built_as,
                   activity_at, last>>

\* Mutant of probe_exit: the callback returns without releasing fps_lock.
probe_exit_keeps_lock(i) ==
    /\ thread_pc.stream[i] = "release"
    /\ thread_pc' = StreamAt(i, "idle")
    /\ last' = [Called("_fps_probe_callback", "OK", "none", FALSE, "None")
                   EXCEPT !.cam = i]
    /\ UNCHANGED <<mgr_vars, now, built_as, activity_at>>

\* The with block ends (fps_lock released) and the callback returns OK.
probe_exit(i) ==
    /\ thread_pc.stream[i] = "release"
    /\ fps_lock' = "None"
    /\ thread_pc' = StreamAt(i, "idle")
    /\ last' = [Called("_fps_probe_callback", "OK", "none", FALSE, "None")
                   EXCEPT !.cam = i]
    /\ UNCHANGED <<pipeline, gst_state, elements, sink_handle, probes, running,
                   window_id, current_view, compositor_sink_pads, fps_overlays,
                   overlay_text, fps_values, latency_values,
                   fps_overlay_visible, fps_hide_timer, timers,
                   fps_frame_counts, fps_last_update, latency_buffer_times,
                   now, built_as, activity_at>>

(***************************************************************************)
(* Spec: the public operations in any order                                *)
(***************************************************************************)
Next ==
    \/ \E wid \in WindowIds, capsOk \in BOOLEAN, o \in UniformOutcomes :
            create_pipeline(wid, TRUE, TRUE, capsOk, o) /\ UNCHANGED aside
    \/ \E wid \in WindowIds, compOk \in BOOLEAN :
            create_pipeline(wid, compOk, ~compOk, TRUE, NotBuilt)
                /\ UNCHANGED aside
    \/ \E ret \in StateChangeReturns \ {"FAILURE"}, works \in {NoneWorks, AllWork} :
            start_pipeline(ret, "NULL", works) /\ UNCHANGED aside
    \/ \E reached \in {"NULL", "READY", "PAUSED"} :
            start_pipeline("FAILURE", reached, NoneWorks) /\ UNCHANGED aside
    \/ stop_pipeline /\ UNCHANGED aside
    \/ destroy_pipeline /\ UNCHANGED aside
    \/ close /\ UNCHANGED aside
    \/ cycle_view /\ UNCHANGED aside
    \/ on_mouse_activity /\ UNCHANGED aside
    \/ \E tm \in timers : hide_fps_overlay(tm) /\ UNCHANGED aside

Spec == Init /\ [][Next]_vars

(***************************************************************************)
(* SpecView: one build with any combination of branch outcomes, then view  *)
(* cycling; view_hist observes current_view after the build and after      *)
(* every cycle_view call (the last MaxHist observations).                  *)
(***************************************************************************)
Observe(h, v) ==
    IF Len(h) < MaxHist THEN Append(h, v) ELSE Append(Tail(h), v)

FirstBuild ==
    /\ last.op = "__init__"
    /\ \E wid \in WindowIds, capsOk \in BOOLEAN, o \in AllOutcomes :
            create_pipeline(wid, TRUE, TRUE, capsOk, o)
    /\ view_hist' = <<current_view'>>
    /\ UNCHANGED <<win_vars, config>>

NextView ==
    \/ FirstBuild
    \/ /\ cycle_view
       /\ view_hist' = Observe(view_hist, current_view')
       /\ UNCHANGED <<win_vars, config>>

SpecView == Init /\ [][NextView]_vars

(***************************************************************************)
(* SpecLayout: one build, then up to MaxSwitches direct applications of    *)
(* the layout helpers; view_hist lists the modes applied (-1 is tiled).    *)
(***************************************************************************)
NextLayout ==
    \/ /\ last.op = "__init__"
       /\ \E o \in AllOutcomes : create_pipeline("w1", TRUE, TRUE, TRUE, o)
       /\ view_hist' = <<>>
       /\ UNCHANGED <<win_vars, config>>
    \/ /\ pipeline # "None"
       /\ Len(view_hist) < MaxSwitches
       /\ apply_tiled_view
       /\ view_hist' = Append(view_hist, -1)
       /\ UNCHANGED <<win_vars, config>>
    \/ /\ pipeline # "None"
       /\ Len(view_hist) < MaxSwitches
       /\ \E k \in DeviceIndex :
            /\ apply_single_camera_view(k)
            /\ view_hist' = Append(view_hist, k)
            /\ UNCHANGED <<win_vars, config>>

SpecLayout == Init /\ [][NextLayout]_vars

(***************************************************************************)
(* SpecLatency: a built and started graph on which one camera delivers up  *)
(* to MaxFrames buffers of every kind within one metering window.          *)
(***************************************************************************)
MaxFrames == 11

\* The frames of a run come from one camera.
OneCamera(i) == last.op = "_fps_probe_callback" => last.cam = i

BuildOnce(outcomes) ==
    /\ last.op = "__init__"
    /\ create_pipeline("w1", TRUE, TRUE, TRUE, outcomes)

StartOnce ==
    /\ last.op = "create_pipeline"
    /\ start_pipeline("SUCCESS", "NULL", AllWork)

NextLatency ==
    \/ BuildOnce([i \in DeviceIndex |-> "ok"]) /\ UNCHANGED aside
    \/ StartOnce /\ UNCHANGED aside
    \/ \E i \in probes, frame \in Frames :
          /\ OneCamera(i)
          /\ fps_frame_counts[i] < MaxFrames
          /\ fps_probe_callback(i, frame)
          /\ UNCHANGED aside

SpecLatency == Init /\ [][NextLatency]_vars

(***************************************************************************)
(* SpecFps: the overlay is shown or not, the graph is built and started,   *)
(* and one camera delivers frames for FpsSeconds while the clock runs, at  *)
(* most MaxBurst of them in a metering window.                             *)
(***************************************************************************)
MaxBurst == 3
FpsSeconds == 3

FpsFrames == {f \in Frames : f.clock /\ f.pts = 2500000}

NextFps ==
    \/ last.op = "__init__" /\ on_mouse_activity /\ UNCHANGED aside
    \/ /\ last.op \in {"__init__", "on_mouse_activity"}
       /\ create_pipeline("w1", TRUE, TRUE, TRUE, [i \in DeviceIndex |-> "ok"])
       /\ UNCHANGED aside
    \/ StartOnce /\ UNCHANGED aside
    \/ \E i \in probes, frame \in FpsFrames :
          /\ OneCamera(i)
          /\ fps_frame_counts[i] < MaxBurst
          /\ fps_probe_callback(i, frame)
          /\ UNCHANGED aside
    \/ now < FpsSeconds * TicksPerSec /\ tick /\ UNCHANGED aside

SpecFps == Init /\ [][NextFps]_vars

(***************************************************************************)
(* SpecLock: a built and started graph on which the streaming threads of   *)
(* two cameras run their probe callbacks while the event thread handles    *)
(* mouse activity, for LockSeconds of clock.                               *)
(***************************************************************************)
LockSeconds == 1

StreamCams == {0, 1}

NextLock ==
    \/ BuildOnce([i \in DeviceIndex |-> "ok"]) /\ UNCHANGED aside
    \/ StartOnce /\ UNCHANGED aside
    \/ activity_show /\ UNCHANGED aside
    \/ activity_update /\ UNCHANGED aside
    \/ activity_schedule /\ UNCHANGED aside
    \/ \E i \in StreamCams :
          fps_frame_counts[i] < MaxBurst /\ probe_enter(i) /\ UNCHANGED aside
    \/ \E i \in StreamCams, frame \in FpsFrames :
          probe_sample(i, frame) /\ UNCHANGED aside
    \/ \E i \in StreamCams : probe_recompute(i) /\ UNCHANGED aside
    \/ \E i \in StreamCams : probe_display(i) /\ UNCHANGED aside
    \/ \E i \in StreamCams : probe_exit(i) /\ UNCHANGED aside
    \/ now < LockSeconds * TicksPerSec /\ tick /\ UNCHANGED aside

SpecLock == Init /\ [][NextLock]_vars

(***************************************************************************)
(* SpecRace: one build, then mouse activity on the event thread while the  *)
(* clock runs and Timers expire on their own threads.  Activity stops      *)
(* early enough for the last Timer to expire before the clock's bound.     *)
(* Time passes, a Timer thread that can run does, and a call that began    *)
(* returns.                                                                *)
(***************************************************************************)
TimerStep ==
    \E tm \in timers :
        timer_fires(tm) \/ timer_cancel(tm) \/ timer_clear(tm) \/ timer_hide(tm)

ActivityReturns == activity_update \/ activity_schedule

NextRace ==
    \/ /\ last.op = "__init__"
       /\ \E o \in UniformOutcomes : create_pipeline("w1", TRUE, TRUE, TRUE, o)
       /\ UNCHANGED aside
    \/ now + IdleTicks <= MaxTime /\ activity_show /\ UNCHANGED aside
    \/ activity_update /\ UNCHANGED aside
    \/ activity_schedule /\ UNCHANGED aside
    \/ \E tm \in timers : timer_fires(tm) /\ UNCHANGED aside
    \/ \E tm \in timers : timer_cancel(tm) /\ UNCHANGED aside
    \/ \E tm \in timers : timer_clear(tm) /\ UNCHANGED aside
    \/ \E tm \in timers : timer_hide(tm) /\ UNCHANGED aside
    \/ tick /\ UNCHANGED aside

SpecRace ==
    /\ Init /\ [][NextRace]_vars
    /\ WF_vars(tick /\ UNCHANGED aside)
    /\ WF_vars(TimerStep /\ UNCHANGED aside)
    /\ WF_vars(ActivityReturns /\ UNCHANGED aside)

(***************************************************************************)
(* Claims C1-C6: pipeline lifecycle (checked under Spec)                   *)
(***************************************************************************)

\* C1: when the compositor or the display sink cannot be created,
\* create_pipeline() returns False and leaves the controller UNBUILT: no
\* pipeline object remains and is_running() is false.
C1_FatalBuildLeavesUnbuilt ==
    (last.op = "create_pipeline" /\ last.log = "error")
        => (last.ret = "False" /\ pipeline = "None" /\ ~is_running)

\* C2: while no graph is built (pipeline is None), cycle_view reports an
\* error and changes neither current_view nor any tile property.
C2_UnbuiltSwitchIsNoop ==
    [][(pipeline = "None" /\ last'.op = "cycle_view")
          => /\ last'.log \in {"warning", "error"}
             /\ current_view' = current_view
             /\ compositor_sink_pads' = compositor_sink_pads]_vars

\* C3: stop_pipeline() on a built graph leaves the pipeline in state NULL
\* with running = False and the graph still built, logs no error, and
\* changes nothing at all when the graph is already stopped (so a second
\* consecutive stop leaves the state the first one left).
C3_StopIdempotent ==
    [][(last'.op = "stop_pipeline" /\ pipeline # "None")
          => /\ gst_state' = "NULL" /\ ~running'
             /\ pipeline' = pipeline /\ elements' = elements
             /\ compositor_sink_pads' = compositor_sink_pads
             /\ last'.log # "error"
             /\ ((gst_state = "NULL" /\ ~running) => UNCHANGED mgr_vars)
             /\ (last.op = "stop_pipeline" => UNCHANGED mgr_vars)]_vars

\* C3 witness: stop_pipeline was called twice in a row on a built graph.
C3_Witness ==
    /\ last.op = "stop_pipeline" /\ last.rep /\ last.had
    /\ pipeline = "Pipeline" /\ gst_state = "NULL" /\ ~running

\* C4: destroy_pipeline(), called directly or by close(), leaves pipeline
\* None and running False without an error; when the controller is already
\* UNBUILT a direct call changes nothing, and the call made by close()
\* changes nothing either (close itself only drops the idle-hide timer).
C4_DestroyRepeatable ==
    [][/\ (last'.op \in {"destroy_pipeline", "close"})
            => (pipeline' = "None" /\ ~running' /\ last'.log # "error")
       /\ (last'.op = "destroy_pipeline" /\ pipeline = "None")
            => UNCHANGED mgr_vars
       /\ (last'.op = "close" /\ pipeline = "None")
            => UNCHANGED graph_vars]_vars

\* C4 witness: close() on a controller whose graph was built and has
\* already been destroyed (the sequence of test_gstreamer_manager).
C4_Witness ==
    /\ last.op = "close" /\ ~last.had
    /\ pipeline = "None" /\ ~running /\ compositor_sink_pads # <<>>

\* C5: start_pipeline() returns False when no pipeline exists or when
\* set_state(PLAYING) reports FAILURE; a call that returns False leaves the
\* running flag as it was (False stays False) and attempts no attachment;
\* a call that returns True had a pipeline and sets running to True.
C5_StartOnlyFromBuilt ==
    [][last'.op = "start_pipeline"
          => /\ (pipeline = "None" \/ last'.sc = "FAILURE") => last'.ret = "False"
             /\ last'.ret = "False"
                  => /\ running' = running
                     /\ ~last'.attach
                     /\ sink_handle' = sink_handle
             /\ last'.ret = "True"
                  => (pipeline # "None" /\ running' /\ is_running')]_vars

\* C5 witness: a start that failed in set_state although a handle was
\* stored, leaving running False.
C5_Witness ==
    /\ last.op = "start_pipeline" /\ last.ret = "False" /\ last.sc = "FAILURE"
    /\ window_id = "w1" /\ "video_sink" \in elements /\ ~running

\* C6: the window handle reaches the display sink only inside
\* start_pipeline() after a non-failing set_state(PLAYING);
\* create_pipeline() only stores it.
C6_AttachOnlyAfterPlaying ==
    [][/\ (last'.attach \/ (sink_handle' # sink_handle /\ sink_handle' # "None"))
            => /\ last'.op = "start_pipeline"
               /\ last'.sc \in StateChangeReturns \ {"FAILURE"}
               /\ gst_state' = "PLAYING"
       /\ last'.op = "create_pipeline"
            => (sink_handle' = "None" /\ ~last'.attach)]_vars

\* C6 witness: the stored handle has been attached by a start.
C6_Witness ==
    /\ last.op = "start_pipeline" /\ last.attach
    /\ sink_handle = "w1" /\ gst_state = "PLAYING"

(***************************************************************************)
(* Claims C7-C10: tile layouts and view cycling                            *)
(***************************************************************************)
\* A tile shown alone: opaque, at the origin, as large as the 2x2 canvas.
FullCanvas(t) ==
    /\ t.xpos = 0 /\ t.ypos = 0
    /\ t.width = 2 * video_width /\ t.height = 2 * video_height
    /\ t.alpha = 1

\* A tile in grid cell i of the 2x2 grid, opaque and of source size.
InCell(t, i) ==
    /\ t.xpos = (i % 2) * video_width /\ t.ypos = (i \div 2) * video_height
    /\ t.width = video_width /\ t.height = video_height
    /\ t.alpha = 1

\* C7: after a switch to CAMERA_k exactly one tile is opaque and covers
\* the full canvas, and every other tile has alpha 0 (checked under
\* SpecView).
C7_SingleCameraExactlyOne ==
    (last.op = "cycle_view" /\ last.log = "info" /\ current_view \in 0 .. 3)
        => \E p \in DOMAIN compositor_sink_pads :
              /\ FullCanvas(compositor_sink_pads[p])
              /\ \A q \in DOMAIN compositor_sink_pads \ {p} :
                    compositor_sink_pads[q].alpha = 0

\* C8: in tiled layout, right after the build and after every return to
\* TILED, tile i (i = 0 .. branch count - 1) sits in grid cell i with
\* source size and alpha 1 (checked under SpecView).
C8_TiledGrid ==
    (pipeline # "None" /\ current_view = -1
        /\ last.op \in {"create_pipeline", "cycle_view"})
        => \A p \in DOMAIN compositor_sink_pads :
              InCell(compositor_sink_pads[p], p - 1)

\* The tiled layout the build gave the pads that are now in the list.
FreshLayout(pads) ==
    [p \in DOMAIN pads |->
        set_compositor_sink_properties(NewPad(pads[p].slot), pads[p].slot)]

\* C9: CAMERA_k -> CAMERA_j -> TILED -> CAMERA_k leaves every tile with
\* the (xpos, ypos, width, height, alpha) of the direct switch to CAMERA_k
\* from the freshly built tiled layout (checked under SpecLayout).
C9_ReturnViaTiled ==
    \A k \in DeviceIndex, j \in DeviceIndex :
        view_hist = <<k, j, -1, k>>
            => compositor_sink_pads =
                   set_single_camera_view(FreshLayout(compositor_sink_pads), k,
                                          2 * video_width, 2 * video_height)

\* The cycling order of the claim, and the mode following v in it.
CycleOrder == <<-1, 0, 1, 2, 3>>

Following(v) ==
    LET at == CHOOSE n \in DOMAIN CycleOrder : CycleOrder[n] = v
    IN  CycleOrder[(at % Len(CycleOrder)) + 1]

\* The tiles are laid out as mode v prescribes.
LayoutOf(v, pads) ==
    \A p \in DOMAIN pads :
        IF v = -1 THEN InCell(pads[p], p - 1)
        ELSE IF p - 1 = v THEN FullCanvas(pads[p])
        ELSE pads[p].alpha = 0

\* What view_hist must look like when every cycle_view call advances the
\* mode one step in CycleOrder and applies the layout of the new mode.
CyclesInOrder ==
    /\ \A n \in 1 .. (Len(view_hist) - 1) : view_hist[n + 1] = Following(view_hist[n])
    /\ \A n \in 1 .. (Len(view_hist) - 5) : view_hist[n + 5] = view_hist[n]
    /\ view_hist # <<>> => view_hist[Len(view_hist)] = current_view
    /\ last.op = "cycle_view" => LayoutOf(current_view, compositor_sink_pads)

C11_TileShowsItsDevice ==
    \A p \in DOMAIN compositor_sink_pads :
        LET t == compositor_sink_pads[p]
        IN  /\ (last.op = "cycle_view" /\ current_view \in 0 .. 3 /\ t.alpha = 1)
                  => t.slot = current_view
            /\ (pipeline # "None" /\ current_view = -1
                  /\ last.op \in {"create_pipeline", "cycle_view"})
                  => InCell(t, t.slot)

\* The branches of the last build that reached the compositor.
LinkedBranches == {i \in DeviceIndex : built_as[i] \in {"ok", "no_overlay"}}

\* C20: a source branch that cannot be built is skipped and the build goes
\* on: create_pipeline() returns True with a stopped pipeline that holds
\* the compositor, the sink and one tile, in its grid cell, for every
\* branch that could be built, and nothing of a skipped branch.
C20_BranchFailureNonFatal ==
    last.op = "create_pipeline"
        => /\ last.ret = "True" /\ pipeline = "Pipeline" /\ gst_state = "NULL"
           /\ {"comp", "video_sink"} \subseteq elements
           /\ Len(compositor_sink_pads) = Cardinality(LinkedBranches)
           /\ \A i \in LinkedBranches :
                 /\ ElemName("src", i) \in elements
                 /\ \E p \in DOMAIN compositor_sink_pads :
                       /\ compositor_sink_pads[p].slot = i
                       /\ InCell(compositor_sink_pads[p], i)
           /\ \A i \in DeviceIndex :
                 built_as[i] = "skipped" => ElemName("src", i) \notin elements

\* C20 witness: one branch of four was skipped and three tiles were built.
C20_Witness ==
    /\ last.op = "create_pipeline" /\ last.ret = "True"
    /\ Cardinality({i \in DeviceIndex : built_as[i] = "skipped"}) = 1
    /\ Cardinality({i \in DeviceIndex : built_as[i] = "ok"}) = 3
    /\ built_as[0] = "skipped"
    /\ Len(compositor_sink_pads) = 3

(***************************************************************************)
(* Claims C12-C19: the FPS overlay, its idle-hide timer and the sampler    *)
(***************************************************************************)
\* C12: from the build of the graph onward the text of every registered
\* overlay is empty while fps_overlay_visible is False and is
\* "{fps:.1f} FPS | {latency:.1f}ms" of the branch's current fps_values /
\* latency_values while it is True (checked under Spec).
C12_TextFollowsVisibility ==
    \A i \in fps_overlays :
        overlay_text[i] =
            IF fps_overlay_visible
            THEN FormatText(fps_values[i], latency_values[i])
            ELSE EmptyText

\* C13: after on_mouse_activity() returned at time t, and with no further
\* activity, the overlay is visible throughout [t, t + idle_timeout), it is
\* not visible, with every text cleared, once idle_timeout has elapsed,
\* and it does become not visible (checked under SpecRace).
C13_IdleHide ==
    /\ []((activity_at >= 0 /\ thread_pc.event = "idle"
              /\ now < activity_at + IdleTicks) => fps_overlay_visible)
    /\ []((activity_at >= 0 /\ thread_pc.event = "idle"
              /\ now > activity_at + IdleTicks)
            => (~fps_overlay_visible
                /\ \A i \in fps_overlays : overlay_text[i] = EmptyText))
    /\ ((activity_at >= 0) ~> ~fps_overlay_visible)

\* A Timer that will still run hide_fps_overlay unless it is cancelled.
Outstanding == {tm \in timers : tm.at = "waiting"}

\* C14: at most one idle-hide Timer is outstanding at any time, and the
\* hide that ends a burst of activity completes idle_timeout after the last
\* on_mouse_activity() (checked under SpecRace).
C14_OneTimerOutstanding ==
    /\ Cardinality(Outstanding) <= 1
    /\ (last.op = "hide_fps_overlay" /\ activity_at >= 0)
          => last.at = activity_at + IdleTicks

\* C15: under every interleaving of the Timer thread with the event
\* thread, once on_mouse_activity() has returned, and until the timeout it
\* scheduled is over or the next call begins, the overlay is visible and
\* the Timer the call scheduled is pending (checked under SpecRace).
C15_ActivityKeepsOverlay ==
    (last.op = "on_mouse_activity" /\ thread_pc.event = "idle"
        /\ now < last.at + IdleTicks)
        => /\ fps_overlay_visible
           /\ \E tm \in Outstanding :
                 tm.id = fps_hide_timer /\ tm.deadline = last.at + IdleTicks

\* A step that is a probe callback of camera i.
ProbeStep(i) ==
    /\ last'.op = "_fps_probe_callback" /\ last'.cam = i
    /\ <<fps_frame_counts[i], fps_last_update[i]>>
           # <<fps_frame_counts'[i], fps_last_update'[i]>>

\* C18: the latency sample list of a camera holds at most 10 entries, the
\* most recently pushed ones in arrival order (a push appends, and drops
\* the oldest entry of a full list), and latency_values is the arithmetic
\* mean of the list, to the hundredth of a millisecond (checked under
\* SpecLatency).
C18_LatencyWindow ==
    /\ [](\A i \in DeviceIndex :
            LET buf == latency_buffer_times[i]
            IN  /\ Len(buf) <= LatencyCap
                /\ buf = <<>> => latency_values[i] = 0
                /\ buf # <<>> =>
                      /\ latency_values[i] * Len(buf) <= Sum(buf)
                      /\ Sum(buf) < (latency_values[i] + 1) * Len(buf))
    /\ [][\A i \in DeviceIndex :
            (ProbeStep(i) /\ last'.push # "none") =>
                LET old == latency_buffer_times[i]
                    new == latency_buffer_times'[i]
                IN  /\ new # <<>>
                    /\ new = Append(IF Len(old) < LatencyCap THEN old ELSE Tail(old),
                                    new[Len(new)])]_vars

\* C18 witness: a push onto a full list has evicted the oldest sample of a
\* list that holds samples of different values.
C18_Witness ==
    /\ last.op = "_fps_probe_callback" /\ last.push = "evicted"
    /\ Len(latency_buffer_times[last.cam]) = LatencyCap
    /\ \E p, q \in DOMAIN latency_buffer_times[last.cam] :
          latency_buffer_times[last.cam][p] # latency_buffer_times[last.cam][q]

\* C19: a frame of branch i adds one to fps_frame_counts[i]; if at least
\* 1.0 s has passed since the last recomputation, fps_values[i] becomes
\* the count divided by the elapsed time, the count is reset, last_update
\* becomes now and the overlay text is pushed (formatted when visible,
\* empty otherwise); else fps_values[i] and fps_last_update[i] are
\* unchanged.  Frames evenly spaced over the window give their rate, to
\* the hundredth of a frame per second (checked under SpecFps).
C19_FrameCounting ==
    [][\A i \in DeviceIndex :
        ProbeStep(i) =>
            LET elapsed == now - fps_last_update[i]
                count == fps_frame_counts[i] + 1
            IN  IF elapsed >= TicksPerSec
                THEN /\ fps_values'[i] = (count * TicksPerSec * 100) \div elapsed
                     /\ fps_frame_counts'[i] = 0
                     /\ fps_last_update'[i] = now
                     /\ overlay_text'[i] =
                            IF fps_overlay_visible
                            THEN FormatText(fps_values'[i], latency_values'[i])
                            ELSE EmptyText
                     /\ \A d \in 1 .. MaxTime :
                           last'.gaps = {d} =>
                               /\ fps_values'[i] * d <= TicksPerSec * 100
                               /\ TicksPerSec * 100 < (fps_values'[i] + 1) * d
                ELSE /\ fps_frame_counts'[i] = count
                     /\ fps_values'[i] = fps_values[i]
                     /\ fps_last_update'[i] = fps_last_update[i]]_vars

\* C19 witness: a callback has recomputed the FPS of a camera whose frames
\* came one tick apart, and has written the formatted text.
C19_Witness ==
    /\ last.op = "_fps_probe_callback" /\ last.gaps = {1}
    /\ fps_last_update[last.cam] = last.at
    /\ fps_frame_counts[last.cam] = 0
    /\ fps_values[last.cam] = TicksPerSec * 100
    /\ fps_overlay_visible
    /\ overlay_text[last.cam] = FormatText(fps_values[last.cam],
                                            latency_values[last.cam])
    /\ overlay_text[last.cam] # FormatText(0, 0)

\* The threads of the model, and what each is about to do.
Threads == {"event"} \cup {StreamThread(i) : i \in DeviceIndex}

\* Thread th is about to write an overlay's text property.
WritesText(th) ==
    \/ th = "event" /\ thread_pc.event = "update" /\ fps_overlays # {}
    \/ \E i \in fps_overlays :
          th = StreamThread(i) /\ thread_pc.stream[i] = "display"

\* Thread th is about to read or write fps_values, latency_values, the
\* frame counts, the update times or the sample lists.
TouchesMetrics(th) ==
    \/ th = "event" /\ thread_pc.event = "update" /\ fps_overlays # {}
    \/ \E i \in DeviceIndex :
          /\ th = StreamThread(i)
          /\ thread_pc.stream[i] \in {"locked", "sampled", "display"}

\* C16: fps_lock is held for the metrics update only: no thread writes an
\* overlay text property while it holds the lock (checked under SpecLock).
C16_NoTextWriteUnderLock ==
    \A th \in Threads : WritesText(th) => fps_lock # th

\* C17: every read and write of the per-branch metrics, the reads made to
\* format an overlay text included, is made by a thread that holds
\* fps_lock (checked under SpecLock).
C17_MetricsUnderLock ==
    \A th \in Threads : TouchesMetrics(th) => fps_lock = th

(***************************************************************************)
(* SpecDegraded: one build in which the branches of StreamCams come out    *)
(* in any way, a start, and then frames from these cameras during          *)
(* LockSeconds of clock.                                                   *)
(***************************************************************************)
\* The builds drawn: any outcome for the branches of the cameras that
\* stream, the other branches built in full.
DegradedBuilds ==
    {o \in AllOutcomes : \A i \in DeviceIndex \ StreamCams : o[i] = "ok"}

NextDegraded ==
    \/ /\ last.op = "__init__"
       /\ \E o \in DegradedBuilds : create_pipeline("w1", TRUE, TRUE, TRUE, o)
       /\ UNCHANGED aside
    \/ StartOnce /\ UNCHANGED aside
    \/ \E i \in probes \cap StreamCams, frame \in FpsFrames :
          /\ fps_frame_counts[i] < MaxBurst
          /\ fps_probe_callback(i, frame)
          /\ UNCHANGED aside
    \/ now < LockSeconds * TicksPerSec /\ tick /\ UNCHANGED aside

SpecDegraded == Init /\ [][NextDegraded]_vars

(***************************************************************************)
(* Claim C21: a branch without its text overlay                            *)
(***************************************************************************)
\* The branches of the last build whose textoverlay could not be created.
Degraded == {i \in DeviceIndex : built_as[i] = "no_overlay"}

\* C21: when the textoverlay of branch i cannot be created the build
\* succeeds; branch i is linked to compositor pad sink_i, placed in grid
\* cell i by the build, without textoverlay element, probe or registered
\* overlay, and its fps / latency metrics keep their initial values while
\* the graph lives (checked under SpecDegraded).
C21_OverlayFailureDegrades ==
    \A i \in Degraded :
        /\ pipeline = "Pipeline"
        /\ last.op = "create_pipeline" =>
              /\ last.ret = "True"
              /\ \E p \in DOMAIN compositor_sink_pads :
                    /\ compositor_sink_pads[p].slot = i
                    /\ InCell(compositor_sink_pads[p], i)
        /\ \E p \in DOMAIN compositor_sink_pads : compositor_sink_pads[p].slot = i
        /\ {ElemName("src", i), ElemName("caps", i)} \subseteq elements
        /\ ElemName("textoverlay", i) \notin elements
        /\ i \notin probes /\ i \notin fps_overlays
        /\ fps_values[i] = 0 /\ latency_values[i] = 0
        /\ fps_frame_counts[i] = 0 /\ fps_last_update[i] = 0
        /\ latency_buffer_times[i] = <<>>

\* C21 witness: camera 0 was built without textoverlay, and camera 1, built
\* with one, has delivered frames and had its FPS computed.
C21_Witness ==
    /\ built_as[0] = "no_overlay" /\ built_as[1] = "ok"
    /\ gst_state = "PLAYING" /\ now > 0
    /\ fps_values[1] > 0 /\ fps_values[0] = 0
    /\ Len(compositor_sink_pads) >= 2

(***************************************************************************)
(* SpecAttach: builds (with and without a window handle, complete or       *)
(* broken off), starts on sinks that accept any subset of the attachment   *)
(* strategies, stops and destructions.                                     *)
(***************************************************************************)
NextAttach ==
    \/ \E wid \in WindowIds, o \in UniformOutcomes :
            create_pipeline(wid, TRUE, TRUE, TRUE, o) /\ UNCHANGED aside
    \/ \E wid \in WindowIds, compOk \in BOOLEAN :
            create_pipeline(wid, compOk, ~compOk, TRUE, NotBuilt)
                /\ UNCHANGED aside
    \/ \E ret \in StateChangeReturns \ {"FAILURE"}, works \in AttachWorks :
            start_pipeline(ret, "NULL", works) /\ UNCHANGED aside
    \/ \E reached \in {"NULL", "READY", "PAUSED"} :
            start_pipeline("FAILURE", reached, NoneWorks) /\ UNCHANGED aside
    \/ stop_pipeline /\ UNCHANGED aside
    \/ destroy_pipeline /\ UNCHANGED aside

SpecAttach == Init /\ [][NextAttach]_vars

(***************************************************************************)
(* Claim C22: the order of the attachment strategies                       *)
(***************************************************************************)
\* t is an initial stretch of seq.
IsPrefix(t, seq) ==
    /\ Len(t) <= Len(seq)
    /\ \A n \in DOMAIN t : t[n] = seq[n]

\* C22: a start whose set_state did not fail returns True with the
\* pipeline PLAYING whatever the attachment does; the strategies it tried
\* are an initial stretch of VideoOverlay, direct, window-id, xid,
\* xwindow-id, window; the one that succeeded is the last one tried and
\* puts the handle on the sink; and if none succeeded on the sink, all six
\* were tried (checked under SpecAttach).
C22_AttachInOrder ==
    (last.op = "start_pipeline" /\ last.sc \in StateChangeReturns \ {"FAILURE"})
        => /\ last.ret = "True" /\ gst_state = "PLAYING" /\ running
           /\ IsPrefix(last.tried, AttachStrategies)
           /\ last.tried # <<>> => last.attach
           /\ last.via # "none"
                => /\ last.tried # <<>>
                   /\ last.via = last.tried[Len(last.tried)]
                   /\ sink_handle = window_id
           /\ (last.attach /\ "video_sink" \in elements /\ last.via = "none")
                => last.tried = AttachStrategies

\* C22 witness: the overlay interface, the direct method and window-id
\* failed, xid succeeded and nothing was tried after it.
C22_Witness ==
    /\ last.op = "start_pipeline" /\ last.ret = "True"
    /\ last.tried = <<"VideoOverlay", "direct", "window-id", "xid">>
    /\ last.via = "xid"
    /\ sink_handle = "w1" /\ gst_state = "PLAYING"

(***************************************************************************)
(* Claim C23: what a view switch touches (checked under Spec)              *)
(***************************************************************************)
\* A tile that lies within the 2x2 output canvas.
OnCanvas(t) ==
    /\ t.xpos >= 0 /\ t.ypos >= 0
    /\ t.xpos + t.width <= 2 * video_width
    /\ t.ypos + t.height <= 2 * video_height

\* C23: cycle_view writes nothing but xpos, ypos, width, height and alpha
\* of the tiles: the pipeline, its state and the running flag, the
\* elements (the output capsfilter among them), the probes, the pads and
\* what each is linked to, the metrics, the overlays and their visibility
\* are as before; no state change is requested; and every tile stays
\* within the fixed 2*video_width x 2*video_height output.
C23_SwitchWritesTilesOnly ==
    [][last'.op = "cycle_view"
          => /\ UNCHANGED <<pipeline, gst_state, running, elements, probes,
                            sink_handle, window_id>>
             /\ last'.sc = "None"
             /\ DOMAIN compositor_sink_pads' = DOMAIN compositor_sink_pads
             /\ \A p \in DOMAIN compositor_sink_pads :
                   /\ compositor_sink_pads'[p].slot = compositor_sink_pads[p].slot
                   /\ OnCanvas(compositor_sink_pads'[p])
             /\ UNCHANGED <<fps_values, latency_values, sampler_vars,
                            fps_overlays, overlay_text, fps_overlay_visible,
                            fps_hide_timer, timers>>]_vars

\* C23 witness: a switch to CAMERA_2 on a playing graph whose overlay is
\* visible.
C23_Witness ==
    /\ last.op = "cycle_view" /\ last.log = "info" /\ current_view = 2
    /\ gst_state = "PLAYING" /\ running /\ fps_overlay_visible
    /\ "output_caps" \in elements
    /\ Len(compositor_sink_pads) = 4

(***************************************************************************)
(* Claims C24, C25: what outlives a graph (checked under Spec)             *)
(***************************************************************************)
\* C24: once destroy_pipeline() has destroyed a graph the controller holds
\* no tile pad and no overlay of it and no idle-hide Timer is outstanding;
\* and while no graph exists, no step (Timer expiry, mouse activity, view
\* switch) writes a tile property or an overlay text.
C24_NothingOutlivesGraph ==
    /\ []((last.op = "destroy_pipeline" /\ last.had)
            => /\ compositor_sink_pads = <<>>
               /\ fps_overlays = {}
               /\ Outstanding = {})
    /\ [][(pipeline = "None" /\ pipeline' = "None")
            => UNCHANGED <<compositor_sink_pads, overlay_text>>]_vars

XIds == {"x1", "x2"}

\* The events the window selects or is sent: key presses by keysym, button
\* presses by button number, client messages by the atom in data[0], and
\* pointer motion.
XEvents ==
    {XEvent("KeyPress", k) : k \in {"Escape", "q", "0", "1", "2", "3", "4", "a"}}
    \cup {XEvent("ButtonPress", b) : b \in {"1", "2", "3"}}
    \cup {XEvent("ClientMessage", a) : a \in {"WM_DELETE_WINDOW", "WM_TAKE_FOCUS"}}
    \cup {XEvent("MotionNotify", "none")}

\* Events the display connection holds unread at most.
MaxPending == 1

\* destroy_window on manager x and server srv.
DestroyWindow(x, srv) ==
    IF x.window # "None"
    THEN [x11 |-> [x EXCEPT !.window = "None"],
          srv |-> [srv EXCEPT !.windows = @ \ {x.window}]]
    ELSE [x11 |-> x, srv |-> srv]

\* Mutant of CreateWindow: a window the manager already has is not
\* destroyed first.
CreateWindow_keeps_old(x, srv, id, outcome) ==
    IF outcome = "no_window"
    THEN [x11 |-> x, srv |-> srv, ret |-> FALSE]
    ELSE [x11 |-> [x EXCEPT !.window = id],
          srv |-> [windows |-> srv.windows \cup {id},
                   events |-> IF outcome = "ok" THEN <<>> ELSE srv.events],
          ret |-> outcome = "ok"]

\* create_window on manager x and server srv; id is the id of the new
\* window.  outcome "no_window": root.create_window raises; "broken_off":
\* a call between the creation and the wait for MapNotify raises (lines
\* 111-170), the window exists and stays referenced; "ok": the window is
\* mapped and _wait_for_map_notify has read the events pending so far.
CreateWindow(x, srv, id, outcome) ==
    LET d == DestroyWindow(x, srv)
    IN  IF outcome = "no_window"
        THEN [x11 |-> d.x11, srv |-> d.srv, ret |-> FALSE]
        ELSE [x11 |-> [d.x11 EXCEPT !.window = id],
              srv |-> [windows |-> d.srv.windows \cup {id},
                       events |-> IF outcome = "ok" THEN <<>> ELSE d.srv.events],
              ret |-> outcome = "ok"]

\* get_window_id()
get_window_id == x11_manager.window

\* The inputs create_window can meet: an id not in use once the old window
\* is gone, and no creation on a closed display.
CanCreate(id, outcome) ==
    /\ id \in XIds \ DestroyWindow(x11_manager, xserver).srv.windows
    /\ outcome \in {"ok", "broken_off", "no_window"}
    /\ x11_manager.dpy = "None" => outcome = "no_window"

\* What a call of X11WindowManager leaves in `last`; had: a window existed.
CalledX11(op, ret, log) ==
    [Called(op, ret, log, FALSE, "None")
        EXCEPT !.had = x11_manager.window # "None"]

create_window(id, outcome) ==
    LET r == CreateWindow(x11_manager, xserver, id, outcome)
    IN  /\ CanCreate(id, outcome)
        /\ x11_manager' = r.x11
        /\ xserver' = r.srv
        /\ last' = CalledX11("create_window",
                             IF r.ret THEN "True" ELSE "False",
                             IF ~r.ret THEN "error"
                             ELSE IF x11_manager.window # "None" THEN "warning"
                             ELSE "info")
        /\ UNCHANGED <<mgr_vars, now, thread_pc, built_as, activity_at,
                       view_hist, config, main_window, dispatched>>

destroy_window ==
    LET d == DestroyWindow(x11_manager, xserver)
    IN  /\ x11_manager' = d.x11
        /\ xserver' = d.srv
        /\ last' = CalledX11("destroy_window", "None",
                             IF x11_manager.window # "None" THEN "info" ELSE "none")
        /\ UNCHANGED <<mgr_vars, now, thread_pc, built_as, activity_at,
                       view_hist, config, main_window, dispatched>>

\* X11WindowManager.close applied to manager x and server srv: running =
\* False, destroy_window(), dpy.close() and dpy = None.
CloseX11(x, srv) ==
    LET d == DestroyWindow([x EXCEPT !.running = FALSE], srv)
    IN  [x11 |-> [d.x11 EXCEPT !.dpy = "None"],
         srv |-> IF x.dpy = "None" THEN d.srv
                 ELSE [d.srv EXCEPT !.events = <<>>]]

X11_close ==
    LET c == CloseX11(x11_manager, xserver)
    IN  /\ x11_manager' = c.x11
        /\ xserver' = c.srv
        /\ last' = CalledX11("X11WindowManager.close", "None", "info")
        /\ UNCHANGED <<mgr_vars, now, thread_pc, built_as, activity_at,
                       view_hist, config, main_window, dispatched>>

\* The X server sends event e to the window.
deliver(e) ==
    /\ x11_manager.window # "None"
    /\ Len(xserver.events) < MaxPending
    /\ xserver' = [xserver EXCEPT !.events = Append(@, e)]
    /\ UNCHANGED <<mgr_vars, now, thread_pc, built_as, activity_at, last,
                   view_hist, config, x11_manager, main_window, dispatched>>

(***************************************************************************)
(* Event dispatch: X11WindowManager.handle_events and the handlers         *)
(* MainWindow registers (ui/main_window.py)                                *)
(***************************************************************************)
\* The handlers _setup_event_handlers registers; none for MotionNotify.
RegisteredByMainWindow == {"KeyPress", "ButtonPress", "ClientMessage"}

\* The events that ask the program to shut down: Escape, q, the right
\* button, and the window manager's WM_DELETE_WINDOW message.
IsShutdown(e) ==
    \/ e.type = "KeyPress" /\ e.detail \in {"Escape", "q"}
    \/ e.type = "ButtonPress" /\ e.detail = "3"
    \/ e.type = "ClientMessage" /\ e.detail = "WM_DELETE_WINDOW"

\* The events MainWindow treats as a request for a view:
\* _switch_to_camera, _switch_to_four_way or _cycle_cameras is called.
IsViewRequest(e) ==
    \/ e.type = "KeyPress" /\ e.detail \in {"0", "1", "2", "3", "4"}
    \/ e.type = "ButtonPress" /\ e.detail \in {"1", "2"}

\* _switch_to_four_way, _switch_to_camera and _cycle_cameras on window mw:
\* each calls gstreamer_manager.switch_view_mode(mode) inside try, and
\* GStreamerManager has no such method, so the AttributeError reaches the
\* except clause before current_view_mode is assigned.
switch_view(mw) == [mw |-> mw, log |-> "error"]

\* The test both _handle_client_message make of a client message:
\* dpy.intern_atom("WM_DELETE_WINDOW").atom.  intern_atom gives the atom
\* itself, a number (create_window hands it to set_wm_protocols as such,
\* x11_manager.py lines 148-149), so .atom raises AttributeError.
AtomTestRaises == TRUE

\* The handler MainWindow registered for the type of e, on st = [x11, mw,
\* log, raised, left].  Each handler catches what it raises and logs it.
MainWindowHandler(st, e) ==
    IF e.type = "ClientMessage" /\ AtomTestRaises
    THEN [st EXCEPT !.log = "error"]
    ELSE IF IsShutdown(e)
    THEN [st EXCEPT !.x11.running = FALSE, !.mw.running = FALSE,
                    !.log = "info"]
    ELSE IF IsViewRequest(e)
    THEN [st EXCEPT !.mw = switch_view(st.mw).mw,
                    !.log = switch_view(st.mw).log]
    ELSE [st EXCEPT !.log = "debug"]

\* X11WindowManager's own handlers (lines 344-399), which catch nothing:
\* Escape and q clear running, a button only logs, a client message
\* raises or, if WM_DELETE_WINDOW, clears running.
OwnHandler(st, e) ==
    IF e.type = "KeyPress" /\ e.detail \in {"Escape", "q"}
    THEN [st EXCEPT !.x11.running = FALSE]
    ELSE IF e.type = "ClientMessage" /\ AtomTestRaises
    THEN [st EXCEPT !.raised = TRUE]
    ELSE IF e.type = "ClientMessage" /\ e.detail = "WM_DELETE_WINDOW"
    THEN [st EXCEPT !.x11.running = FALSE]
    ELSE st

\* One turn of the loop of handle_events: the registered handler if there
\* is one for the type, then the manager's own.
HandleEvent(st, e) ==
    LET reg == IF e.type \in st.x11.event_handlers
               THEN MainWindowHandler(st, e)
               ELSE [st EXCEPT !.log = "none"]
    IN  OwnHandler(reg, e)

\* handle_events: the pending events in order of arrival, until there is
\* none or a handler raises; the except clause of handle_events ends the
\* pass and the events not read stay pending (left).
RECURSIVE HandleEvents(_, _)
HandleEvents(st, queue) ==
    IF queue = <<>> \/ st.raised THEN [st EXCEPT !.left = queue]
    ELSE HandleEvents(HandleEvent(st, Head(queue)), Tail(queue))

\* The state handle_events starts from.
Handling ==
    [x11 |-> x11_manager, mw |-> main_window, log |-> "none",
     raised |-> FALSE, left |-> <<>>]

\* What `dispatched` keeps of a pass that read the events of queue:
\* "shutdown" if one of them asked for it, else the kind of the last.
Dispatched(queue) ==
    IF \E k \in 1..Len(queue) : IsShutdown(queue[k]) THEN "shutdown"
    ELSE IF IsViewRequest(queue[Len(queue)]) THEN "view"
    ELSE "other"

\* The events of queue that a pass leaving `left` has read.
ReadOf(queue, left) == SubSeq(queue, 1, Len(queue) - Len(left))

\* handle_events() called by the owner of the manager.
handle_events ==
    LET st == HandleEvents(Handling, xserver.events)
    IN  /\ x11_manager.dpy # "None"
        /\ xserver.events # <<>>
        /\ x11_manager' = st.x11
        /\ main_window' = st.mw
        /\ xserver' = [xserver EXCEPT !.events = st.left]
        /\ last' = CalledX11("handle_events", "None",
                             IF st.raised THEN "error" ELSE st.log)
        /\ UNCHANGED <<mgr_vars, now, thread_pc, built_as, activity_at,
                       view_hist, config, dispatched>>

(***************************************************************************)
(* SpecX11: the operations of X11WindowManager in any order                *)
(***************************************************************************)
NextX11 ==
    \/ \E id \in XIds, outcome \in {"ok", "broken_off", "no_window"} :
            create_window(id, outcome)
    \/ destroy_window
    \/ X11_close
    \/ \E e \in XEvents : deliver(e)
    \/ handle_events

SpecX11 == Init /\ [][NextX11]_vars

(***************************************************************************)
(* MainWindow (ui/main_window.py)                                          *)
(***************************************************************************)
\* MainWindow.__init__: _init_components and _setup_event_handlers.
MainWindow_init ==
    /\ main_window.at = "__init__"
    /\ main_window' = [main_window EXCEPT !.at = "idle"]
    /\ x11_manager' =
           [x11_manager EXCEPT !.event_handlers = RegisteredByMainWindow]
    /\ UNCHANGED <<mgr_vars, now, thread_pc, built_as, activity_at, last,
                   view_hist, config, xserver, dispatched>>

\* MainWindow.create_window: x11_manager.create_window, get_window_id and
\* gstreamer_manager.create_pipeline(window_id).
MainWindow_create_window(id, outcome, compOk, outcomes) ==
    LET r == CreateWindow(x11_manager, xserver, id, outcome)
    IN  /\ main_window.at \in {"idle", "returned"}
        /\ CanCreate(id, outcome)
        /\ x11_manager' = r.x11
        /\ xserver' = r.srv
        /\ IF r.ret
           THEN create_pipeline(r.x11.window, compOk, TRUE, TRUE, outcomes)
           ELSE /\ last' = Called("MainWindow.create_window", "False", "error",
                                  FALSE, "None")
                /\ UNCHANGED <<mgr_vars, now, thread_pc, built_as, activity_at>>
        /\ UNCHANGED <<view_hist, config, main_window, dispatched>>

\* MainWindow.run up to the loop of run_event_loop: start() (start_pipeline,
\* the event thread, running = True), then run_event_loop's check of the
\* window and running = True.  Every way out leads to the finally clause.
MainWindow_run(ret, reached, works) ==
    LET started == pipeline # "None" /\ ret # "FAILURE"
        looping == started /\ x11_manager.window # "None"
    IN  /\ main_window.at \in {"idle", "returned"}
        /\ start_pipeline(ret, reached, works)
        /\ main_window' =
               [main_window EXCEPT
                   !.running = IF started THEN TRUE ELSE @,
                   !.at = IF looping THEN "loop" ELSE "stopping"]
        /\ x11_manager' =
               [x11_manager EXCEPT !.running = IF looping THEN TRUE ELSE @]
        /\ UNCHANGED <<view_hist, config, xserver, dispatched>>

\* One turn of the loop of run_event_loop with events pending:
\* handle_events(), then the test of running; the finally clause on the
\* way out.
run_event_loop_pass ==
    LET st == HandleEvents(Handling, xserver.events)
    IN  /\ main_window.at = "loop"
        /\ xserver.events # <<>>
        /\ x11_manager' = st.x11
        /\ main_window' =
               [st.mw EXCEPT !.at = IF st.x11.running THEN "loop" ELSE "stopping"]
        /\ xserver' = [xserver EXCEPT !.events = st.left]
        /\ dispatched' = Dispatched(ReadOf(xserver.events, st.left))
        /\ UNCHANGED <<mgr_vars, now, thread_pc, built_as, activity_at, last,
                       view_hist, config>>

\* The loop ends by an exception (KeyboardInterrupt, or flush / sync on a
\* lost connection): running = False in the finally clause.
run_event_loop_breaks ==
    /\ main_window.at = "loop"
    /\ x11_manager' = [x11_manager EXCEPT !.running = FALSE]
    /\ main_window' = [main_window EXCEPT !.at = "stopping"]
    /\ UNCHANGED <<mgr_vars, now, thread_pc, built_as, activity_at, last,
                   view_hist, config, xserver, dispatched>>

\* The finally clause of run: stop(), that is running = False,
\* stop_pipeline() and the join of the event thread.
MainWindow_stop ==
    /\ main_window.at = "stopping"
    /\ stop_pipeline
    /\ main_window' = [main_window EXCEPT !.running = FALSE, !.at = "returned"]
    /\ UNCHANGED <<view_hist, config, x11_manager, xserver, dispatched>>

(***************************************************************************)
(* SpecWindow: a MainWindow that is built and run, and is sent events      *)
(* while its loop runs                                                     *)
(***************************************************************************)
NextWindow ==
    \/ MainWindow_init
    \/ \E id \in XIds, outcome \in {"ok", "broken_off", "no_window"},
          k \in {"ok", "skipped"} :
            MainWindow_create_window(id, outcome, TRUE, [i \in DeviceIndex |-> k])
    \/ \E id \in XIds : MainWindow_create_window(id, "ok", FALSE, NotBuilt)
    \/ MainWindow_run("SUCCESS", "NULL", AllWork)
    \/ \E reached \in {"NULL", "READY", "PAUSED"} :
            MainWindow_run("FAILURE", reached, NoneWorks)
    \/ \E e \in XEvents : main_window.at = "loop" /\ deliver(e)
    \/ run_event_loop_pass
    \/ run_event_loop_breaks
    \/ MainWindow_stop

SpecWindow == Init /\ [][NextWindow]_vars

\* The loop of run_event_loop does not block (pending_events is polled), and
\* nothing stands between the end of the loop and the finally clause of
\* run.
SpecWindowFair ==
    /\ SpecWindow
    /\ WF_vars(run_event_loop_pass)
    /\ WF_vars(MainWindow_stop)

(***************************************************************************)
(* C26, C27: keys and buttons that ask for a view                          *)
(***************************************************************************)
\* The view an event asks for by name: -1 the tiled view, 0..3 a camera,
\* -2 if it names none.
RequestedView(e) ==
    IF e.type = "KeyPress" /\ e.detail = "1" THEN 0
    ELSE IF e.type = "KeyPress" /\ e.detail = "2" THEN 1
    ELSE IF e.type = "KeyPress" /\ e.detail = "3" THEN 2
    ELSE IF e.type = "KeyPress" /\ e.detail = "4" THEN 3
    ELSE IF e.type = "KeyPress" /\ e.detail = "0" THEN -1
    ELSE IF e.type = "ButtonPress" /\ e.detail = "1" THEN -1
    ELSE -2

\* The member of ViewMode MainWindow records for view v.
ModeName(v) ==
    IF v = -1 THEN "FOUR_WAY"
    ELSE IF v = 0 THEN "CAMERA_1"
    ELSE IF v = 1 THEN "CAMERA_2"
    ELSE IF v = 2 THEN "CAMERA_3"
    ELSE "CAMERA_4"

\* The loop reads event e alone, on a graph with its four tiles.
PassOver(e) ==
    /\ xserver.events = <<e>>
    /\ Len(compositor_sink_pads) = 4
    /\ run_event_loop_pass

\* C26: a key '1'..'4' switches to camera 0..3 and a key '0' or a left
\* click to the tiled view: once the event is handled the compositor has
\* the layout of the requested mode, and both the manager and the window
\* record that mode as the current one.
C26_KeysAndLeftClickSwitch ==
    [][\A e \in XEvents :
          (RequestedView(e) # -2 /\ PassOver(e)) =>
              /\ current_view' = RequestedView(e)
              /\ LayoutOf(RequestedView(e), compositor_sink_pads')
              /\ main_window'.current_view_mode = ModeName(RequestedView(e))]_vars

\* C27: a middle click advances the view one step in the order tiled,
\* camera 0, .., camera 3, tiled, and after every click the mode the window
\* records is the mode whose layout the compositor has.
C27_MiddleClickCycles ==
    [][PassOver(XEvent("ButtonPress", "2")) =>
          /\ current_view' = Following(current_view)
          /\ LayoutOf(current_view', compositor_sink_pads')
          /\ main_window'.current_view_mode = ModeName(current_view')]_vars

(***************************************************************************)
(* C28: shutdown                                                           *)
(***************************************************************************)
\* A request to shut down is pending.
ShutdownPending == \E k \in 1..Len(xserver.events) : IsShutdown(xserver.events[k])

\* C28: a request to shut down (Escape, q, the right button, the close
\* button of the window) makes MainWindow.running and
\* X11WindowManager.running False when it is handled; the loop of
\* run_event_loop then ends and MainWindow.run stops the pipeline; and
\* whenever run() has returned, by whatever way, stop() has run: nothing
\* is running and the pipeline, if any, is in state NULL.
C28_ShutdownStopsEverything ==
    /\ [][(run_event_loop_pass /\ dispatched' = "shutdown") =>
              /\ ~main_window'.running
              /\ ~x11_manager'.running]_vars
    /\ (main_window.at = "loop" /\ ShutdownPending)
           ~> (main_window.at = "returned")
    /\ [](main_window.at = "returned" =>
              /\ ~main_window.running
              /\ ~x11_manager.running
              /\ ~running
              /\ pipeline # "None" => gst_state = "NULL")

(***************************************************************************)
(* C29: mouse motion                                                       *)
(***************************************************************************)
\* C29: every mouse motion reaches on_mouse_activity(): once the event is
\* handled the overlay is visible, every overlay shows the current metrics
\* of its camera, and the idle timer has been started anew.
C29_MotionShowsOverlay ==
    [][PassOver(XEvent("MotionNotify", "none")) =>
          /\ fps_overlay_visible'
          /\ overlay_text' = [i \in fps_overlays |->
                                 FormatText(fps_values[i], latency_values[i])]
          /\ fps_hide_timer' # "None"
          /\ activity_at' = now]_vars

(***************************************************************************)
(* C30: the manager owns at most one window                                *)
(***************************************************************************)
\* The windows of this client are exactly the one the manager refers to.
OwnsItsWindows ==
    xserver.windows = IF x11_manager.window = "None" THEN {}
                      ELSE {x11_manager.window}

\* C30: X11WindowManager owns at most one window.  In every state the
\* server holds at most one window of the manager, and get_window_id()
\* gives an id exactly when it holds one; a create_window() that succeeds
\* leaves exactly one window, whether or not there was one before;
\* destroy_window() and close() leave none, which is the count before the
\* window was created; destroy_window() without a window changes nothing.
C30_AtMostOneWindow ==
    /\ [](/\ OwnsItsWindows
          /\ Cardinality(xserver.windows) <= 1
          /\ (get_window_id # "None") <=> (xserver.windows # {}))
    /\ [][/\ \A id \in XIds : create_window(id, "ok") =>
                /\ Cardinality(xserver'.windows) = 1
                /\ xserver'.windows = {id}
                /\ x11_manager'.window = id
          /\ (destroy_window \/ X11_close) =>
                /\ xserver'.windows = {}
                /\ x11_manager'.window = "None"
          /\ (destroy_window /\ x11_manager.window = "None") =>
                UNCHANGED <<x11_manager, xserver>>]_vars

\* A second create_window() has succeeded on a manager that had a window.
C30_Witness ==
    /\ last.op = "create_window"
    /\ last.ret = "True"
    /\ last.had
    /\ Cardinality(xserver.windows) = 1

(***************************************************************************)
(* Config (utils/config.py)                                                *)
(***************************************************************************)
\* The settings validate() compares with 0.
SizeKeys ==
    {"video_width", "video_height", "output_width", "output_height",
     "window_width", "window_height"}

\* What a size setting is given besides its default.
SizeValues == {Num(-1), Num(0), NoNumber}

\* What the log level is given besides its default: other cases of valid
\* levels, names that are no level, the empty string and None.
LevelValues ==
    {Str(<<"d", "e", "b", "u", "g">>), Str(<<"W", "a", "r", "n", "i", "n", "g">>),
     Str(<<"T", "R", "A", "C", "E">>), Str(<<>>), NoString}

LowerCase ==
    <<"a", "b", "c", "d", "e", "f", "g", "h", "i", "j", "k", "l", "m",
      "n", "o", "p", "q", "r", "s", "t", "u", "v", "w", "x", "y", "z">>

UpperCase ==
    <<"A", "B", "C", "D", "E", "F", "G", "H", "I", "J", "K", "L", "M",
      "N", "O", "P", "Q", "R", "S", "T", "U", "V", "W", "X", "Y", "Z">>

\* str.upper() on a sequence of characters.
upper(chars) ==
    [k \in DOMAIN chars |->
        IF \E j \in DOMAIN LowerCase : LowerCase[j] = chars[k]
        THEN UpperCase[CHOOSE j \in DOMAIN LowerCase : LowerCase[j] = chars[k]]
        ELSE chars[k]]

valid_levels ==
    {<<"D", "E", "B", "U", "G">>, <<"I", "N", "F", "O">>,
     <<"W", "A", "R", "N", "I", "N", "G">>, <<"E", "R", "R", "O", "R">>,
     <<"C", "R", "I", "T", "I", "C", "A", "L">>}

\* Mutant of validate_config: the window dimensions are not looked at.
validate_config_skips_window(c) ==
    IF c.video_width.none \/ c.video_height.none
    THEN [ret |-> FALSE, log |-> "exception", config |-> c]
    ELSE IF c.video_width.n <= 0 \/ c.video_height.n <= 0
    THEN [ret |-> FALSE, log |-> "video", config |-> c]
    ELSE IF c.output_width.none \/ c.output_height.none
    THEN [ret |-> FALSE, log |-> "exception", config |-> c]
    ELSE IF c.output_width.n <= 0 \/ c.output_height.n <= 0
    THEN [ret |-> FALSE, log |-> "output", config |-> c]
    ELSE IF c.level.none
    THEN [ret |-> FALSE, log |-> "exception", config |-> c]
    ELSE IF upper(c.level.s) \notin valid_levels
    THEN [ret |-> FALSE, log |-> "level", config |-> c]
    ELSE [ret |-> TRUE, log |-> "none", config |-> c]

\* Config.validate() on settings c: what it returns, which error it
\* prints and the settings it leaves.  The comparisons are made in the
\* order of the code, `or` stops at its first true operand, and comparing
\* None with 0 or calling None.upper() raises into the except clause.
validate_config(c) ==
    IF c.video_width.none
    THEN [ret |-> FALSE, log |-> "exception", config |-> c]
    ELSE IF c.video_width.n <= 0
    THEN [ret |-> FALSE, log |-> "video", config |-> c]
    ELSE IF c.video_height.none
    THEN [ret |-> FALSE, log |-> "exception", config |-> c]
    ELSE IF c.video_height.n <= 0
    THEN [ret |-> FALSE, log |-> "video", config |-> c]
    ELSE IF c.output_width.none
    THEN [ret |-> FALSE, log |-> "exception", config |-> c]
    ELSE IF c.output_width.n <= 0
    THEN [ret |-> FALSE, log |-> "output", config |-> c]
    ELSE IF c.output_height.none
    THEN [ret |-> FALSE, log |-> "exception", config |-> c]
    ELSE IF c.output_height.n <= 0
    THEN [ret |-> FALSE, log |-> "output", config |-> c]
    ELSE IF c.window_width.none
    THEN [ret |-> FALSE, log |-> "exception", config |-> c]
    ELSE IF c.window_width.n <= 0
    THEN [ret |-> FALSE, log |-> "window", config |-> c]
    ELSE IF c.window_height.none
    THEN [ret |-> FALSE, log |-> "exception", config |-> c]
    ELSE IF c.window_height.n <= 0
    THEN [ret |-> FALSE, log |-> "window", config |-> c]
    ELSE IF c.level.none
    THEN [ret |-> FALSE, log |-> "exception", config |-> c]
    ELSE IF upper(c.level.s) \notin valid_levels
    THEN [ret |-> FALSE, log |-> "level", config |-> c]
    ELSE [ret |-> TRUE, log |-> "none", config |-> c]

\* The rest of the state, which Config does not touch.
not_config ==
    <<mgr_vars, now, thread_pc, built_as, activity_at, view_hist, win_vars>>

\* validate()
validate ==
    LET v == validate_config(config)
    IN  /\ config' = v.config
        /\ last' = Called("validate", IF v.ret THEN "True" ELSE "False",
                          v.log, FALSE, "None")
        /\ UNCHANGED not_config

\* update_from_args(args) with a single key in args, or an assignment to
\* the attribute as the tests make it.
update_from_args(key, value) ==
    /\ config' = [config EXCEPT ![key] = value]
    /\ last' = Called("update_from_args", "None", "none", FALSE, "None")
    /\ UNCHANGED not_config

(***************************************************************************)
(* SpecConfig: settings changed one at a time, validated at any time       *)
(***************************************************************************)
NextConfig ==
    \/ \E key \in SizeKeys :
         \E value \in SizeValues \cup {DefaultConfig[key]} :
            update_from_args(key, value)
    \/ \E value \in LevelValues \cup {DefaultConfig.level} :
            update_from_args("level", value)
    \/ validate

SpecConfig == Init /\ [][NextConfig]_vars

\* A size setting holds a positive number.
Positive(v) == ~v.none /\ v.n > 0

\* Two strings are equal up to the case of their letters.
SameButCase(a, b) ==
    /\ Len(a) = Len(b)
    /\ \A k \in DOMAIN a :
          \/ a[k] = b[k]
          \/ \E j \in DOMAIN LowerCase :
                {a[k], b[k]} = {LowerCase[j], UpperCase[j]}

\* The settings are valid as C31 words it.
ValidAsClaimed(c) ==
    /\ \A key \in SizeKeys : Positive(c[key])
    /\ ~c.level.none
    /\ \E name \in valid_levels : SameButCase(c.level.s, name)

\* C31: validate() returns True exactly when the video, output and window
\* dimensions are all positive and the log level is, whatever the case of
\* its letters, one of DEBUG, INFO, WARNING, ERROR, CRITICAL; otherwise it
\* returns False; and it never changes a setting.
C31_ValidateIsExact ==
    /\ [](last.op = "validate" =>
             (last.ret = "True" <=> ValidAsClaimed(config)))
    /\ [](last.op = "validate" => last.ret \in {"True", "False"})
    /\ [][validate => config' = config]_vars

\* validate() has accepted settings whose level is not in upper case.
C31_Witness ==
    /\ last.op = "validate"
    /\ last.ret = "True"
    /\ config.level.s \notin valid_levels
    /\ config.video_width = DefaultConfig.video_width

(***************************************************************************)
(* SpecClocked: a built and started graph on which one camera delivers up  *)
(* to MaxFrames buffers that carry a PTS, the pipeline having a clock      *)
(***************************************************************************)
ClockedFrames == {f \in Frames : f.buffer /\ f.pts # CLOCK_TIME_NONE /\ f.clock}

NextClocked ==
    \/ BuildOnce([i \in DeviceIndex |-> "ok"]) /\ UNCHANGED aside
    \/ StartOnce /\ UNCHANGED aside
    \/ \E i \in probes, frame \in ClockedFrames :
          /\ OneCamera(i)
          /\ fps_frame_counts[i] < MaxFrames
          /\ fps_probe_callback(i, frame)
          /\ UNCHANGED aside

SpecClocked == Init /\ [][NextClocked]_vars

\* C32: for a frame with a valid PTS on a pipeline with a clock, the
\* latency clock time - base time - PTS is pushed into the sample list of
\* the branch, and the mean recomputed, only when it is strictly positive;
\* a latency of zero or less leaves the sample list and latency_values of
\* the branch as they were, while the frame is still counted.
C32_OnlyPositiveLatency ==
    [][\A i \in DeviceIndex, frame \in ClockedFrames :
          fps_probe_callback(i, frame) =>
              LET latency == frame.running_time - frame.pts
                  new == latency_buffer_times'[i]
              IN  /\ latency > 0 =>
                        /\ new # <<>>
                        /\ new[Len(new)] * Gst_MSECOND <= latency * 100
                        /\ latency * 100 < (new[Len(new)] + 1) * Gst_MSECOND
                        /\ last'.push # "none"
                  /\ latency <= 0 =>
                        /\ new = latency_buffer_times[i]
                        /\ latency_values'[i] = latency_values[i]
                        /\ last'.push = "none"
                  /\ fps_frame_counts'[i] = fps_frame_counts[i] + 1]_vars

\* A frame whose latency is not positive has been counted after one whose
\* latency was pushed.
C32_Witness ==
    /\ last.op = "_fps_probe_callback"
    /\ last.push = "none"
    /\ fps_frame_counts[last.cam] >= 2
    /\ Len(latency_buffer_times[last.cam]) = 1

(***************************************************************************)
(* SpecUnclocked: a built and started graph on which one camera delivers   *)
(* buffers without a PTS, and buffers with a PTS while the pipeline has no *)
(* clock, for LockSeconds of clock, at most MaxBurst in a metering window  *)
(***************************************************************************)
NoPtsFrames == {f \in Frames : f.buffer /\ f.pts = CLOCK_TIME_NONE}

NoClockFrames == {f \in Frames : f.buffer /\ f.pts = 2500000 /\ ~f.clock}

NextUnclocked ==
    \/ BuildOnce([i \in DeviceIndex |-> "ok"]) /\ UNCHANGED aside
    \/ StartOnce /\ UNCHANGED aside
    \/ \E i \in probes, frame \in NoPtsFrames \cup NoClockFrames :
          /\ OneCamera(i)
          /\ fps_frame_counts[i] < MaxBurst
          /\ fps_probe_callback(i, frame)
          /\ UNCHANGED aside
    \/ now < LockSeconds * TicksPerSec /\ tick /\ UNCHANGED aside

SpecUnclocked == Init /\ [][NextUnclocked]_vars

\* max(fps, 1.0), fps in hundredths.
AtLeastOne(fps) == IF fps > 100 THEN fps ELSE 100

\* C33: every frame without a valid timestamp pushes the fallback sample
\* 1000 / max(fps_value, 1) ms into the sample list of its branch, with the
\* eviction and the mean of any other sample; the sample lies in
\* (0, 1000] ms and is 1000 ms while fps_value is 0.  (Samples are in
\* hundredths of a millisecond, rounded down.)
C33_FallbackSample ==
    [][\A i \in DeviceIndex, frame \in NoPtsFrames :
          fps_probe_callback(i, frame) =>
              LET old == latency_buffer_times[i]
                  new == latency_buffer_times'[i]
                  x == new[Len(new)]
              IN  /\ new # <<>>
                  /\ new = Append(IF Len(old) < LatencyCap THEN old ELSE Tail(old), x)
                  /\ x * AtLeastOne(fps_values[i]) <= 1000 * 100 * 100
                  /\ 1000 * 100 * 100 < (x + 1) * AtLeastOne(fps_values[i])
                  /\ 0 < x /\ x <= 1000 * 100
                  /\ fps_values[i] = 0 => x = 1000 * 100
                  /\ latency_values'[i] * Len(new) <= Sum(new)
                  /\ Sum(new) < (latency_values'[i] + 1) * Len(new)]_vars

\* A fallback sample of less than 1000 ms has been pushed: the camera had
\* a rate above one frame per second.
C33_Witness ==
    /\ last.op = "_fps_probe_callback"
    /\ last.push # "none"
    /\ fps_values[last.cam] > 100
    /\ LET buf == latency_buffer_times[last.cam]
       IN  buf # <<>> /\ buf[Len(buf)] < 1000 * 100 /\ buf[1] = 1000 * 100

\* C34: a frame with a valid PTS on a pipeline without a clock pushes no
\* sample, neither a clock-relative one nor a fallback estimate: the
\* sample list and latency_values of its branch are as before the frame.
C34_NoClockNoSample ==
    [][\A i \in DeviceIndex, frame \in NoClockFrames :
          fps_probe_callback(i, frame) =>
              /\ latency_buffer_times'[i] = latency_buffer_times[i]
              /\ latency_values'[i] = latency_values[i]
              /\ last'.push = "none"]_vars

\* A frame with a PTS has been handled without a clock on a branch that
\* holds samples.
C34_Witness ==
    /\ last.op = "_fps_probe_callback"
    /\ last.push = "none"
    /\ latency_buffer_times[last.cam] # <<>>

(***************************************************************************)
(* SpecThreads: the streaming threads of two cameras, the event thread and *)
(* the Timer threads together, while the clock runs up to the idle timeout *)
(***************************************************************************)
\* _fps_probe_callback, lines 346-350: the streaming thread of camera i
\* enters the callback with a frame and comes to the with statement.
probe_arrive(i) ==
    /\ i \in probes /\ gst_state = "PLAYING"
    /\ thread_pc.stream[i] = "idle"
    /\ thread_pc' = StreamAt(i, "waiting")
    /\ UNCHANGED <<mgr_vars, now, built_as, activity_at, last>>

\* line 351: the with statement acquires fps_lock once no thread holds it.
probe_acquire(i) ==
    /\ thread_pc.stream[i] = "waiting"
    /\ fps_lock = "None"
    /\ fps_lock' = StreamThread(i)
    /\ thread_pc' = StreamAt(i, "locked")
    /\ UNCHANGED <<pipeline, gst_state, elements, sink_handle, probes, running,
                   window_id, current_view, compositor_sink_pads, fps_overlays,
                   overlay_text, fps_values, latency_values,
                   fps_overlay_visible, fps_hide_timer, timers,
                   fps_frame_counts, fps_last_update, latency_buffer_times,
                   now, built_as, activity_at, last>>

\* lines 352-391 when a statement after the count raises: the frame is
\* counted and the exception leaves the with block.
probe_raises(i) ==
    /\ thread_pc.stream[i] = "locked"
    /\ fps_frame_counts' =
           [fps_frame_counts EXCEPT ![i] = fps_frame_counts[i] + 1]
    /\ thread_pc' = StreamAt(i, "raised")
    /\ UNCHANGED <<pipeline, gst_state, elements, sink_handle, probes, running,
                   window_id, current_view, compositor_sink_pads, fps_overlays,
                   overlay_text, fps_values, latency_values,
                   fps_overlay_visible, fps_hide_timer, timers,
                   fps_last_update, latency_buffer_times, fps_lock, now,
                   built_as, activity_at, last>>

\* Mutant of probe_caught: the lock is released by hand at the end of the
\* block, which an exception skips.
probe_caught_keeps_lock(i) ==
    /\ thread_pc.stream[i] = "raised"
    /\ thread_pc' = StreamAt(i, "idle")
    /\ last' = [Called("_fps_probe_callback", "OK", "debug", FALSE, "None")
                   EXCEPT !.cam = i]
    /\ UNCHANGED <<mgr_vars, now, built_as, activity_at>>

\* The exception leaves the with block, which releases fps_lock, is
\* logged by the except clause (lines 403-404), and the callback returns
\* OK (line 406).
probe_caught(i) ==
    /\ thread_pc.stream[i] = "raised"
    /\ fps_lock' = "None"
    /\ thread_pc' = StreamAt(i, "idle")
    /\ last' = [Called("_fps_probe_callback", "OK", "debug", FALSE, "None")
                   EXCEPT !.cam = i]
    /\ UNCHANGED <<pipeline, gst_state, elements, sink_handle, probes, running,
                   window_id, current_view, compositor_sink_pads, fps_overlays,
                   overlay_text, fps_values, latency_values,
                   fps_overlay_visible, fps_hide_timer, timers,
                   fps_frame_counts, fps_last_update, latency_buffer_times,
                   now, built_as, activity_at>>

\* A step of the streaming thread of camera i inside its callback.
\* The clock of SpecThreads stops when the timer of an activity at time 0
\* has expired.
ThreadTime == IdleTicks

ProbeRuns(i) ==
    \/ probe_acquire(i)
    \/ \E frame \in NoClockFrames : probe_sample(i, frame)
    \/ probe_recompute(i)
    \/ probe_display(i)
    \/ probe_exit(i)
    \/ probe_caught(i)

NextThreads ==
    \/ BuildOnce([i \in DeviceIndex |-> "ok"]) /\ UNCHANGED aside
    \/ StartOnce /\ UNCHANGED aside
    \/ /\ activity_at = -1 /\ now + IdleTicks <= ThreadTime
       /\ activity_show /\ UNCHANGED aside
    \/ activity_update /\ UNCHANGED aside
    \/ activity_schedule /\ UNCHANGED aside
    \/ \E tm \in timers : timer_fires(tm) /\ UNCHANGED aside
    \/ \E tm \in timers : timer_cancel(tm) /\ UNCHANGED aside
    \/ \E tm \in timers : timer_clear(tm) /\ UNCHANGED aside
    \/ \E tm \in timers : timer_hide(tm) /\ UNCHANGED aside
    \/ \E i \in StreamCams :
          /\ fps_values[i] = 0 /\ fps_frame_counts[i] + 1 < MaxBurst
          /\ probe_arrive(i) /\ UNCHANGED aside
    \/ \E i \in StreamCams : probe_acquire(i) /\ UNCHANGED aside
    \/ \E i \in StreamCams, frame \in NoClockFrames :
          probe_sample(i, frame) /\ UNCHANGED aside
    \/ \E i \in StreamCams : probe_raises(i) /\ UNCHANGED aside
    \/ \E i \in StreamCams : probe_recompute(i) /\ UNCHANGED aside
    \/ \E i \in StreamCams : probe_display(i) /\ UNCHANGED aside
    \/ \E i \in StreamCams : probe_exit(i) /\ UNCHANGED aside
    \/ \E i \in StreamCams : probe_caught(i) /\ UNCHANGED aside
    \/ now < ThreadTime /\ tick /\ UNCHANGED aside

\* Every thread that can run is scheduled: the clock, the Timer threads,
\* the event thread inside a call, and each streaming thread inside its
\* callback; a released lock goes to a waiting thread.
SpecThreads ==
    /\ Init /\ [][NextThreads]_vars
    /\ WF_vars(tick /\ UNCHANGED aside)
    /\ WF_vars(TimerStep /\ UNCHANGED aside)
    /\ WF_vars(ActivityReturns /\ UNCHANGED aside)
    /\ \A i \in StreamCams : WF_vars(ProbeRuns(i) /\ UNCHANGED aside)

\* Camera i's streaming thread returns from the callback in this step.
Returns(i) ==
    /\ thread_pc.stream[i] # "idle"
    /\ thread_pc'.stream[i] = "idle"

\* C35: the callback passes every frame on and holds no lock afterwards:
\* each return of _fps_probe_callback, after an exception in the metrics
\* update included, returns PadProbeReturn.OK for its camera and leaves
\* fps_lock released by the returning thread, and a streaming thread
\* outside the callback never holds fps_lock.
C35_ProbePassesThrough ==
    /\ [][\A i \in StreamCams :
            Returns(i) =>
                /\ last'.op = "_fps_probe_callback"
                /\ last'.ret = "OK"
                /\ last'.cam = i
                /\ fps_lock' # StreamThread(i)]_vars
    /\ [](\A i \in StreamCams :
            thread_pc.stream[i] \in {"idle", "waiting"}
                => fps_lock # StreamThread(i))

\* A callback whose metrics update raised has returned OK, the frame was
\* counted and the lock is free.
C35_Witness ==
    /\ last.op = "_fps_probe_callback" /\ last.log = "debug"
    /\ last.ret = "OK"
    /\ last.cam \in StreamCams
    /\ thread_pc.stream[last.cam] = "idle"
    /\ fps_frame_counts[last.cam] > 0
    /\ fps_lock = "None"

\* A thread that holds fps_lock, or that waits for it.
Holders == {StreamThread(i) : i \in StreamCams}

\* C36: the threads never deadlock on fps_lock: only streaming threads
\* take it, a thread that comes to the with statement does not hold the
\* lock already, and every thread waiting for the lock acquires it.
C36_NoDeadlock ==
    /\ [](fps_lock \in Holders \cup {"None"})
    /\ [](\A i \in StreamCams :
            thread_pc.stream[i] = "waiting" => fps_lock # StreamThread(i))
    /\ \A i \in StreamCams :
          (thread_pc.stream[i] = "waiting") ~> (thread_pc.stream[i] = "locked")

\* One streaming thread waits for the lock the other holds while a Timer
\* thread is in its expiry.
C36_Witness ==
    /\ \E i, j \in StreamCams :
          /\ i # j
          /\ thread_pc.stream[i] = "waiting"
          /\ fps_lock = StreamThread(j)
    /\ \E tm \in timers : tm.at = "fired"

\* The same contention while the event thread is inside on_mouse_activity.
C36_DuringActivity ==
    /\ \E i, j \in StreamCams :
          /\ i # j
          /\ thread_pc.stream[i] = "waiting"
          /\ fps_lock = StreamThread(j)
    /\ thread_pc.event # "idle"

\* C37: on a graph built with one to four tiles current_view is one of
\* -1..3, a camera view k has a tile at list position k, and some tile is visible in every view.
C37_ViewHasTile ==
    pipeline # "None" /\ Len(compositor_sink_pads) \in 1..4 =>
        /\ current_view \in {-1, 0, 1, 2, 3}
        /\ current_view >= 0 =>
               current_view + 1 \in DOMAIN compositor_sink_pads
        /\ \E p \in DOMAIN compositor_sink_pads :
               compositor_sink_pads[p].alpha = 1

(***************************************************************************)
(* MainWindow.close, and SpecClose: a MainWindow that is built, started or *)
(* run, and closed any number of times                                     *)
(***************************************************************************)
\* MainWindow.start called by the owner itself (lines 136-158):
\* start_pipeline, the event thread, running = True.
MainWindow_start(ret, reached, works) ==
    LET started == pipeline # "None" /\ ret # "FAILURE"
    IN  /\ main_window.at = "idle"
        /\ start_pipeline(ret, reached, works)
        /\ main_window' =
               [main_window EXCEPT !.running = IF started THEN TRUE ELSE @,
                                   !.at = IF started THEN "started" ELSE @]
        /\ UNCHANGED <<view_hist, config, x11_manager, xserver, dispatched>>

\* Where close() can be called: outside run(), on a window not yet closed
\* or already closed.
Closable == {"idle", "started", "returned", "closed"}

\* Mutant of MainWindow_close_stop: close() does not call stop() first.
MainWindow_close_skips_stop ==
    /\ main_window.at \in Closable
    /\ main_window' = [main_window EXCEPT !.at = "close_gst"]
    /\ last' = Called("MainWindow.stop", "None", "none", FALSE, "None")
    /\ UNCHANGED <<mgr_vars, now, thread_pc, built_as, activity_at, view_hist,
                   config, x11_manager, xserver, dispatched>>

\* close(), line 407: self.stop(), that is running = False and, with a
\* manager, stop_pipeline() (lines 160-176).
MainWindow_close_stop ==
    /\ main_window.at \in Closable
    /\ main_window' = [main_window EXCEPT !.running = FALSE, !.at = "close_gst"]
    /\ IF main_window.gstreamer_manager # "None"
       THEN stop_pipeline
       ELSE /\ last' = Called("MainWindow.stop", "None", "info", FALSE, "None")
            /\ UNCHANGED <<mgr_vars, now, thread_pc, built_as, activity_at>>
    /\ UNCHANGED <<view_hist, config, x11_manager, xserver, dispatched>>

\* close(), lines 409-411: gstreamer_manager.close() and the reference is
\* dropped.
MainWindow_close_gstreamer ==
    /\ main_window.at = "close_gst"
    /\ main_window' = [main_window EXCEPT !.gstreamer_manager = "None",
                                          !.at = "close_x11"]
    /\ IF main_window.gstreamer_manager # "None"
       THEN close
       ELSE UNCHANGED <<mgr_vars, now, thread_pc, built_as, activity_at, last>>
    /\ UNCHANGED <<view_hist, config, x11_manager, xserver, dispatched>>

\* close(), lines 413-417: x11_manager.close() and the reference is
\* dropped.
MainWindow_close_x11 ==
    LET c == CloseX11(x11_manager, xserver)
    IN  /\ main_window.at = "close_x11"
        /\ main_window' = [main_window EXCEPT !.x11_manager = "None",
                                              !.at = "closed"]
        /\ IF main_window.x11_manager # "None"
           THEN x11_manager' = c.x11 /\ xserver' = c.srv
           ELSE UNCHANGED <<x11_manager, xserver>>
        /\ last' = [Called("MainWindow.close", "None", "info", FALSE, "None")
                       EXCEPT !.rep = main_window.x11_manager = "None"]
        /\ UNCHANGED <<mgr_vars, now, thread_pc, built_as, activity_at,
                       view_hist, config, dispatched>>

NextClose ==
    \/ MainWindow_init
    \/ \E id \in XIds, outcome \in {"ok", "broken_off", "no_window"} :
            MainWindow_create_window(id, outcome, TRUE,
                                     [i \in DeviceIndex |-> "ok"])
    \/ \E id \in XIds : MainWindow_create_window(id, "ok", FALSE, NotBuilt)
    \/ MainWindow_start("SUCCESS", "NULL", AllWork)
    \/ MainWindow_start("FAILURE", "PAUSED", NoneWorks)
    \/ MainWindow_run("SUCCESS", "NULL", AllWork)
    \/ MainWindow_run("FAILURE", "PAUSED", NoneWorks)
    \/ run_event_loop_breaks
    \/ MainWindow_stop
    \/ MainWindow_close_stop
    \/ MainWindow_close_gstreamer
    \/ MainWindow_close_x11

SpecClose == Init /\ [][NextClose]_vars

\* A step inside close().
Closing == main_window'.at \in {"close_gst", "close_x11", "closed"}

\* The step takes the display surface away: a window is destroyed or the
\* display connection is closed.
SurfaceDestroyed ==
    \/ xserver'.windows # xserver.windows /\ xserver'.windows \subseteq xserver.windows
    \/ x11_manager.dpy # "None" /\ x11_manager'.dpy = "None"

\* close() is called on a MainWindow that was closed before.
ClosedBefore ==
    /\ main_window.gstreamer_manager = "None"
    /\ main_window.x11_manager = "None"

\* C38: close() stops the pipeline, then destroys the graph, then the
\* window and the display connection: the graph is destroyed only once it
\* is stopped, the display surface is taken away only once the graph is
\* gone and never while it is PLAYING, and a close() of a closed
\* MainWindow changes nothing.
C38_CloseInOrder ==
    /\ [][Closing /\ pipeline # "None" /\ pipeline' = "None"
            => gst_state # "PLAYING" /\ ~running /\ ~main_window.running]_vars
    /\ [][SurfaceDestroyed => gst_state # "PLAYING"]_vars
    /\ [][Closing /\ SurfaceDestroyed
            => pipeline = "None" /\ main_window.gstreamer_manager = "None"]_vars
    /\ [][Closing /\ ClosedBefore
            => /\ UNCHANGED <<mgr_vars, x11_manager, xserver>>
               /\ main_window' = [main_window EXCEPT !.at = main_window'.at]]_vars
    /\ [](main_window.at = "closed" =>
            /\ pipeline = "None" /\ ~running /\ ~main_window.running
            /\ x11_manager.window = "None" /\ x11_manager.dpy = "None"
            /\ xserver.windows = {})

\* A MainWindow whose window and graph had been built was closed, and
\* closed again.
C38_Witness ==
    /\ main_window.at = "closed"
    /\ last.op = "MainWindow.close" /\ last.rep
    /\ built_as # NotBuilt
    /\ window_id # "None"

\* close() has stopped a playing graph and has not yet destroyed it.
C38_StoppedFirst ==
    /\ main_window.at = "close_gst"
    /\ last.op = "stop_pipeline" /\ last.sc = "SUCCESS" /\ ~last.rep
    /\ sink_handle # "None"
    /\ pipeline # "None" /\ gst_state = "NULL"
    /\ x11_manager.window # "None"

\* The operations after which the graph is not running: a stop, a
\* destruction, a close and a build (which destroys the graph it replaces).
Halting == {"stop_pipeline", "destroy_pipeline", "close", "create_pipeline"}

\* C39: is_running() is true only with a pipeline that start_pipeline()
\* has started since it was last stopped, destroyed, closed or rebuilt:
\* it is false after construction, it becomes true only in a successful
\* start_pipeline(), it implies a pipeline, and it is false after every
\* stop_pipeline(), destroy_pipeline(), close() and create_pipeline().
C39_RunningMeansStarted ==
    /\ [](last.op = "__init__" => ~is_running)
    /\ [](is_running => pipeline # "None")
    /\ [][is_running' /\ ~is_running
            => last'.op = "start_pipeline" /\ last'.ret = "True"]_vars
    /\ [][last'.op \in Halting => ~is_running']_vars

\* A successful start_pipeline() has just made is_running() true on a
\* playing graph.
C39_Witness ==
    /\ is_running
    /\ last.op = "start_pipeline" /\ last.ret = "True"
    /\ gst_state = "PLAYING"

====
